---- MODULE Spec2Model ----
(***************************************************************************)
(* model-redis: the Table engine (src/redis_model.js, kept in this tree as *)
(* src/unnamed/part_002 lines 23-360) over a Redis-like store of sets and  *)
(* hashes.  Every operation of Table is one action that issues the store   *)
(* commands of its handler in the handler's order.  SpecSteps looks at the *)
(* same handlers one store command at a time, with two callers, a store    *)
(* that may fail a command and the connection promise of src/index.js.     *)
(*                                                                         *)
(* src/object_validate.js (processKeys, parseFromString, parseToString) is *)
(* not part of this tree; those three are written from spec.md section 4.1 *)
(* and from the expectations of src/unnamed/part_003 lines 300-545.        *)
(***************************************************************************)
EXTENDS Integers, Sequences, FiniteSets, TLC

VARIABLES sets, hashes, models, last, calls, ready, writer

vars == <<sets, hashes, models, last, calls, ready, writer>>

\* what the command-by-command view adds: the calls in progress, the state
\* of the connection promise and, per hash field, the call that wrote it last
stepVars == <<calls, ready, writer>>

(***************************************************************************)
(* Bounds of the model.                                                    *)
(***************************************************************************)
\* largest number a caller passes in a numeric field
MaxAge == 1

(***************************************************************************)
(* JavaScript values.  One record shape for every value, so that any two   *)
(* values can be compared: t is the result of typeof.                      *)
(***************************************************************************)
Undefined == [t |-> "undefined", s |-> "", n |-> 0, b |-> FALSE]

Str(s) == [t |-> "string", s |-> s, n |-> 0, b |-> FALSE]

Num(n) == [t |-> "number", s |-> "", n |-> n, b |-> FALSE]

NaN == [t |-> "number", s |-> "NaN", n |-> 0, b |-> FALSE]

Bool(b) == [t |-> "boolean", s |-> "", n |-> 0, b |-> b]

\* an object value, named by an identifier; "null" is the null value
Obj(id) == [t |-> "object", s |-> id, n |-> 0, b |-> FALSE]

ObjIds == {"null", "empty", "kv"}

Typeof(v) == v.t

\* JavaScript truthiness, as used by `a && b` and `a || b`
Truthy(v) ==
    CASE v.t = "undefined" -> FALSE
      [] v.t = "string"    -> v.s # ""
      [] v.t = "number"    -> v.n # 0 /\ v.s # "NaN"
      [] v.t = "boolean"   -> v.b
      [] OTHER             -> v.s # "null"

Digit(d) ==
    CASE d = 0 -> "0" [] d = 1 -> "1" [] d = 2 -> "2" [] d = 3 -> "3"
      [] d = 4 -> "4" [] d = 5 -> "5" [] d = 6 -> "6" [] d = 7 -> "7"
      [] d = 8 -> "8" [] OTHER -> "9"

RECURSIVE NatText(_)
\* decimal text of a natural number
NatText(n) == IF n < 10 THEN Digit(n) ELSE NatText(n \div 10) \o Digit(n % 10)

\* JSON.stringify of the object values of the model
JsonText(id) ==
    CASE id = "null"  -> "null"
      [] id = "empty" -> "{}"
      [] OTHER        -> "{\"k\":1}"

\* String(v), also what a template literal `${v}` yields
ToStr(v) ==
    CASE v.t = "undefined" -> "undefined"
      [] v.t = "string"    -> v.s
      [] v.t = "number"    -> IF v.s = "NaN" THEN "NaN" ELSE NatText(v.n)
      [] v.t = "boolean"   -> IF v.b THEN "true" ELSE "false"
      [] OTHER             -> IF v.s = "null" THEN "null" ELSE "[object Object]"

Range(f) == {f[x] : x \in DOMAIN f}

\* the empty object {}
EmptyObj == [x \in {} |-> Undefined]

\* obj[k], undefined when obj has no property k
Prop(obj, k) == IF k \in DOMAIN obj THEN obj[k] ELSE Undefined

\* obj with obj[k] = v
WithProp(obj, k, v) == [x \in DOMAIN obj \cup {k} |-> IF x = k THEN v ELSE obj[x]]

(***************************************************************************)
(* The store: Redis sets and hashes, one command per operator.  sets is the *)
(* set of <<key, member>> pairs and hashes the set of <<key, field, text>>  *)
(* triples, so a key with no member or no field does not exist.            *)
(***************************************************************************)
SADD(st, key, member) == [st EXCEPT !.sets = @ \cup {<<key, member>>}]

SREM(st, key, member) == [st EXCEPT !.sets = @ \ {<<key, member>>}]

SISMEMBER(st, key, member) == <<key, member>> \in st.sets

SMEMBERS(st, key) == {p[2] : p \in {q \in st.sets : q[1] = key}}

\* a faulty HSET, for comparison: a field that exists keeps its value
HsetKeepsFirst(st, key, field, text) ==
    IF \E h \in st.hashes : h[1] = key /\ h[2] = field THEN st
    ELSE [st EXCEPT !.hashes = @ \cup {<<key, field, text>>}]

HSET(st, key, field, text) ==
    [st EXCEPT !.hashes = {h \in @ : ~(h[1] = key /\ h[2] = field)}
                            \cup {<<key, field, text>>}]

\* the hash as an object of strings; {} when the key does not exist
HGETALL(st, key) ==
    LET rows == {h \in st.hashes : h[1] = key}
    IN  [f \in {h[2] : h \in rows} |-> (CHOOSE h \in rows : h[2] = f)[3]]

DEL(st, key) ==
    [sets   |-> {p \in st.sets : p[1] # key},
     hashes |-> {h \in st.hashes : h[1] # key}]

\* the value at oldKey moves to newKey, replacing what newKey held
RENAME(st, oldKey, newKey) ==
    IF /\ \A p \in st.sets : p[1] # oldKey
       /\ \A h \in st.hashes : h[1] # oldKey
    THEN st
    ELSE [sets   |-> {p \in st.sets : p[1] \notin {oldKey, newKey}}
                       \cup {<<newKey, p[2]>> : p \in {q \in st.sets : q[1] = oldKey}},
          hashes |-> {h \in st.hashes : h[1] \notin {oldKey, newKey}}
                       \cup {<<newKey, h[2], h[3]>> :
                                h \in {g \in st.hashes : g[1] = oldKey}}]

Store == [sets |-> sets, hashes |-> hashes]

(***************************************************************************)
(* Schemas.  A field map is the sequence of its FieldSpecs in declaration   *)
(* order (the order Object.entries and Object.keys walk it).  Schemas are  *)
(* what an application declares.  Acct has plain fields, with a field      *)
(* declared before the key field as in the README's User schema.  User,    *)
(* Post and Comment are the models of the relationship tests; here User    *)
(* also lists its comments and Comment also names its user, so that a      *)
(* model is reached by two paths.  Author, Book and Review have no         *)
(* back-reference: their relation graph is acyclic.  Doc has a field of    *)
(* every type, a private field and limits on both sides.                   *)
(***************************************************************************)
Field(name) ==
    [name |-> name, type |-> "", isRequired |-> FALSE,
     hasDefault |-> FALSE, default |-> Undefined, always |-> FALSE,
     hasMin |-> FALSE, min |-> 0, hasMax |-> FALSE, max |-> 0,
     isPrivate |-> FALSE,
     model |-> "", rel |-> "", localKey |-> "", remoteKey |-> ""]

\* the key prefix given to setUpTable (the tests pass 'test:')
Prefix == "test:"

\* the model with plain fields, and the three related models
CrudModels == {"Acct"}

RelModels == {"User", "Post", "Comment"}

TreeModels == {"Author", "Book", "Review"}

PureModels == {"Doc"}

\* two models of one application, the name of one beginning with the name of
\* the other and an underscore
NameModels == {"Tag", "Tag_x"}

AllModels == CrudModels \cup RelModels \cup TreeModels \cup PureModels \cup NameModels

\* static _key of each model
KeyOf(m) == IF m = "Acct" THEN "username" ELSE IF m = "Doc" THEN "name" ELSE "id"

\* static _keyMap of a model, built from its declaration
Declared(m) ==
    CASE m = "Acct" ->
           << [Field("age") EXCEPT !.type = "number", !.hasMin = TRUE, !.min = 1],
              [Field("username") EXCEPT !.type = "string", !.isRequired = TRUE],
              [Field("active") EXCEPT !.type = "boolean", !.hasDefault = TRUE,
                                      !.default = Bool(TRUE), !.always = TRUE] >>
      [] m = "User" ->
           << [Field("id") EXCEPT !.type = "string", !.isRequired = TRUE],
              [Field("posts") EXCEPT !.model = "Post", !.rel = "many",
                                     !.remoteKey = "userId", !.localKey = "id"],
              [Field("comments") EXCEPT !.model = "Comment", !.rel = "many",
                                        !.remoteKey = "userId", !.localKey = "id"] >>
      [] m = "Post" ->
           << [Field("id") EXCEPT !.type = "string", !.isRequired = TRUE],
              [Field("userId") EXCEPT !.type = "string", !.isRequired = TRUE],
              [Field("user") EXCEPT !.model = "User", !.rel = "one",
                                    !.localKey = "userId"],
              [Field("comments") EXCEPT !.model = "Comment", !.rel = "many",
                                        !.remoteKey = "postId", !.localKey = "id"] >>
      [] m = "Author" ->
           << [Field("id") EXCEPT !.type = "string", !.isRequired = TRUE],
              [Field("books") EXCEPT !.model = "Book", !.rel = "many",
                                     !.remoteKey = "authorId", !.localKey = "id"],
              [Field("reviews") EXCEPT !.model = "Review", !.rel = "many",
                                       !.remoteKey = "authorId", !.localKey = "id"] >>
      [] m = "Book" ->
           << [Field("id") EXCEPT !.type = "string", !.isRequired = TRUE],
              [Field("authorId") EXCEPT !.type = "string", !.isRequired = TRUE],
              [Field("reviews") EXCEPT !.model = "Review", !.rel = "many",
                                       !.remoteKey = "bookId", !.localKey = "id"] >>
      [] m = "Review" ->
           << [Field("id") EXCEPT !.type = "string", !.isRequired = TRUE],
              [Field("bookId") EXCEPT !.type = "string", !.isRequired = TRUE],
              [Field("authorId") EXCEPT !.type = "string", !.isRequired = TRUE] >>
      [] m = "Doc" ->
           << [Field("name") EXCEPT !.type = "string", !.isRequired = TRUE,
                                    !.hasMin = TRUE, !.min = 1],
              [Field("secret") EXCEPT !.type = "string", !.isPrivate = TRUE],
              [Field("count") EXCEPT !.type = "number", !.isRequired = TRUE,
                                     !.hasMin = TRUE, !.min = 1,
                                     !.hasMax = TRUE, !.max = MaxAge],
              [Field("flag") EXCEPT !.type = "boolean"],
              [Field("meta") EXCEPT !.type = "object"] >>
      [] m \in NameModels ->
           << [Field("id") EXCEPT !.type = "string", !.isRequired = TRUE],
              [Field("label") EXCEPT !.type = "string"] >>
      [] OTHER ->
           << [Field("id") EXCEPT !.type = "string", !.isRequired = TRUE],
              [Field("postId") EXCEPT !.type = "string", !.isRequired = TRUE],
              [Field("userId") EXCEPT !.type = "string"],
              [Field("post") EXCEPT !.model = "Post", !.rel = "one",
                                    !.localKey = "postId"],
              [Field("user") EXCEPT !.model = "User", !.rel = "one",
                                    !.localKey = "userId"] >>

KeyMaps == [m \in AllModels |-> Declared(m)]

\* static _keyMap of each model
KeyMap(m) == KeyMaps[m]

\* the FieldSpec of field k in a field map, and whether the map declares k
Declares(map, k) == \E i \in 1..Len(map) : map[i].name = k

SpecOf(map, k) == map[CHOOSE i \in 1..Len(map) : map[i].name = k]

\* redisPrefix(name): the member set of a model
SetKey(m) == Prefix \o m

\* a faulty record key, for comparison: the prefix is left out
RecordKeyBare(m, indexText) == m \o "_" \o indexText

\* redisPrefix(`${name}_${index}`): the record hash of one entry
RecordKey(m, indexText) == Prefix \o m \o "_" \o indexText

(***************************************************************************)
(* object_validate: processKeys, parseToString, parseFromString.           *)
(***************************************************************************)
\* the min/max contract of a present value: string length or numeric value.
\* The strings of the model are at most one character long.
StrLen(s) == IF s = "" THEN 0 ELSE 1

InLimits(f, v) ==
    LET size == IF v.t = "string" THEN StrLen(v.s) ELSE v.n
    IN  \/ v.t \notin {"string", "number"}
        \/ /\ (f.hasMin => size >= f.min)
           /\ (f.hasMax => size <= f.max)

\* what processKeys does with one field: "skip", "error" or "keep"
FieldVerdict(f, data, partial) ==
    LET present == f.name \in DOMAIN data
    IN  IF ~f.always /\ partial /\ ~present THEN "skip"
        ELSE IF ~partial /\ f.isRequired /\ ~present THEN "error"
        ELSE IF present /\ f.type # "" /\ Typeof(data[f.name]) # f.type THEN "error"
        ELSE IF present /\ ~InLimits(f, data[f.name]) THEN "error"
        ELSE "keep"

\* the value processKeys keeps for a field: the caller's, else the default
FieldValue(f, data) ==
    IF f.name \in DOMAIN data THEN data[f.name]
    ELSE IF f.hasDefault THEN f.default
    ELSE Undefined

RECURSIVE ProcessFirstError(_, _, _, _)
\* a faulty processKeys, for comparison: only the first offending field is
\* reported
ProcessFirstError(map, data, partial, i) ==
    IF i > Len(map) THEN [out |-> <<>>, errors |-> <<>>]
    ELSE LET rest == ProcessFirstError(map, data, partial, i + 1)
             v    == FieldVerdict(map[i], data, partial)
         IN  CASE v = "skip"  -> rest
               [] v = "error" -> [rest EXCEPT !.errors = <<map[i].name>>]
               [] OTHER       -> [rest EXCEPT !.out =
                                    <<[k |-> map[i].name,
                                       v |-> FieldValue(map[i], data)]>> \o @]

RECURSIVE ProcessFrom(_, _, _, _)
ProcessFrom(map, data, partial, i) ==
    IF i > Len(map) THEN [out |-> <<>>, errors |-> <<>>]
    ELSE LET rest == ProcessFrom(map, data, partial, i + 1)
             v    == FieldVerdict(map[i], data, partial)
         IN  CASE v = "skip"  -> rest
               [] v = "error" -> [rest EXCEPT !.errors = <<map[i].name>> \o @]
               [] OTHER       -> [rest EXCEPT !.out =
                                    <<[k |-> map[i].name,
                                       v |-> FieldValue(map[i], data)]>> \o @]

RECURSIVE EntriesOf(_, _)
\* the entries of data under the names of set S, in some order
EntriesOf(S, data) ==
    IF S = {} THEN <<>>
    ELSE LET k == CHOOSE x \in S : TRUE
         IN  <<[k |-> k, v |-> data[k]]>> \o EntriesOf(S \ {k}, data)

\* a faulty processKeys, for comparison: the fields the schema does not
\* declare are kept
processKeysKeepsAll(map, data, partial) ==
    LET r == ProcessFrom(map, data, partial, 1)
    IN  IF r.errors # <<>>
        THEN [ok |-> FALSE, out |-> <<>>, errors |-> r.errors]
        ELSE [ok |-> TRUE, errors |-> <<>>,
              out |-> r.out \o EntriesOf({k \in DOMAIN data : ~Declares(map, k)}, data)]

\* processKeys(map, data, partial): the validated record, as the sequence of
\* its <<key, value>> entries in schema order, or the list of offending fields
processKeys(map, data, partial) ==
    LET r == ProcessFrom(map, data, partial, 1)
    IN  IF r.errors # <<>>
        THEN [ok |-> FALSE, out |-> <<>>, errors |-> r.errors]
        ELSE [ok |-> TRUE, out |-> r.out, errors |-> <<>>]

\* data[k] of a validated record
Entry(out, k) ==
    IF \E i \in 1..Len(out) : out[i].k = k
    THEN out[CHOOSE i \in 1..Len(out) : out[i].k = k].v
    ELSE Undefined

EntryKeys(out) == {out[i].k : i \in 1..Len(out)}

\* parseToString(value): the wire text of a value
parseToString(v) ==
    CASE v.t = "object" -> JsonText(v.s)
      [] OTHER          -> ToStr(v)

\* Number(text) for the decimal texts of the model
TextNumber(text) ==
    IF text = "" THEN Num(0)
    ELSE IF \E n \in 0..(MaxAge + 1) : NatText(n) = text
    THEN Num(CHOOSE n \in 0..(MaxAge + 1) : NatText(n) = text)
    ELSE NaN

\* whether JSON.parse accepts the text
JsonOk(text) == \E id \in ObjIds : JsonText(id) = text

TextObject(text) == Obj(CHOOSE id \in ObjIds : JsonText(id) = text)

\* a faulty parse, for comparison: every text stays a string
FromTextAsIs(type, text) == Str(text)

\* the native value of one stored text under a FieldSpec type
FromText(type, text) ==
    CASE type = "number"  -> TextNumber(text)
      [] type = "boolean" -> Bool(text = "true")
      [] type = "object"  -> TextObject(text)
      [] OTHER            -> Str(text)

\* whether parseFromString returns (JSON.parse throws on a malformed text)
ParseOk(map, raw) ==
    \A k \in DOMAIN raw :
        (Declares(map, k) /\ SpecOf(map, k).type = "object") => JsonOk(raw[k])

\* parseFromString(map, record): typed fields parsed, the others unchanged
parseFromString(map, raw) ==
    [k \in DOMAIN raw |->
        IF Declares(map, k) THEN FromText(SpecOf(map, k).type, raw[k])
        ELSE Str(raw[k])]

(***************************************************************************)
(* Instances and the QueryHelper.                                          *)
(***************************************************************************)
\* new Model(data): the own attributes, and the relation fields resolved
\* after the load (a relation field that was cut or failed is not in rels)
Instance(m, attrs) == [model |-> m, attrs |-> attrs, rels |-> <<>>]

NoInst == [model |-> "", attrs |-> <<>>, rels |-> <<>>]

\* the queryHelper argument: undefined, a QueryHelper with its history, or
\* another object (listDetail hands its last argument on as it is)
NoHelper == [kind |-> "none", history |-> <<>>]

OtherObject == [kind |-> "other", history |-> <<>>]

\* a faulty QueryHelper, for comparison: the history is not seeded
QueryHelperEmpty(originModel) == [kind |-> "qh", history |-> <<>>]

\* new QueryHelper(origin)
QueryHelper(originModel) == [kind |-> "qh", history |-> <<originModel>>]

\* QueryHelper.isNotCycle(modelName, queryHelper): the answer
isNotCycle(modelName, h) ==
    IF h.kind # "qh" THEN TRUE
    ELSE modelName \notin Range(h.history)

\* QueryHelper.isNotCycle(modelName, queryHelper): the helper afterwards
Visit(modelName, h) ==
    IF h.kind = "qh" /\ modelName \notin Range(h.history)
    THEN [h EXCEPT !.history = Append(@, modelName)]
    ELSE h

\* the outcome of a call: returned, threw, or never returns
Returned(i, l, h) ==
    [status |-> "ok", error |-> "", code |-> 0, inst |-> i, list |-> l, h |-> h]

Threw(name, code, h) ==
    [status |-> "error", error |-> name, code |-> code, inst |-> NoInst,
     list |-> <<>>, h |-> h]

Diverges(h) ==
    [status |-> "diverged", error |-> "", code |-> 0, inst |-> NoInst,
     list |-> <<>>, h |-> h]

\* the options object of listDetail: absent, or its key/value pairs in order
NoOptions == [given |-> FALSE, pairs |-> <<>>]

Options(pairs) == [given |-> TRUE, pairs |-> pairs]

\* arguments[arguments.length - 1] of a listDetail(options) call
LastArgument(options) == IF options.given THEN OtherObject ELSE NoHelper

\* instance[k]: a resolved relation is an object, equal to no plain value
Attr(instance, k) ==
    IF k \in DOMAIN instance.rels THEN Obj("kv") ELSE Prop(instance.attrs, k)

\* a faulty option loop, for comparison: it pushes as soon as one pair matches
MatchAnyPair(instance, pairs, i, matchCount) ==
    \E j \in 1..Len(pairs) : Attr(instance, pairs[j].k) = pairs[j].v

RECURSIVE MatchLoop(_, _, _, _)
\* the option loop of listDetail: whether it pushes the instance.  It pushes
\* when the count of matching pairs reaches the number of pairs, then breaks.
MatchLoop(instance, pairs, i, matchCount) ==
    IF i > Len(pairs) THEN FALSE
    ELSE IF Attr(instance, pairs[i].k) = pairs[i].v
         THEN IF matchCount + 1 = Len(pairs) THEN TRUE
              ELSE MatchLoop(instance, pairs, i + 1, matchCount + 1)
         ELSE MatchLoop(instance, pairs, i + 1, matchCount)

\* how many times listDetail pushes one loaded instance to its result
Pushes(instance, options) ==
    (IF ~options.given THEN 1 ELSE 0)
    + (IF MatchLoop(instance, options.pairs, 1, 0) THEN 1 ELSE 0)

RECURSIVE Repeat(_, _)
Repeat(x, n) == IF n = 0 THEN <<>> ELSE <<x>> \o Repeat(x, n - 1)

\* the members of a model's set in the order the store lists them
Listed(st, m, ord) == SelectSeq(ord[m], LAMBDA x : x \in SMEMBERS(st, SetKey(m)))

\* the value a relation field looks its target up by
ForeignKey(instance, f) ==
    Prop(instance.attrs, IF f.localKey # "" THEN f.localKey ELSE KeyOf(instance.model))

RECURSIVE GetFrom(_, _, _, _, _, _, _)
RECURSIVE buildRelations(_, _, _, _, _, _, _)
RECURSIVE ListFrom(_, _, _, _, _, _, _, _, _)
RECURSIVE ListNext(_, _, _, _, _, _, _, _, _)
RECURSIVE Related(_, _, _, _, _, _, _, _)

\* a faulty buildRelations, for comparison: an error of a nested load is not
\* caught but thrown on
buildRelationsThrows(st, reg, instance, h, path, i, ord) ==
    LET map == KeyMap(instance.model)
    IN  IF i > Len(map) THEN Returned(instance, <<>>, h)
        ELSE LET f == map[i]
                 skip == buildRelations(st, reg, instance, h, path, i + 1, ord)
             IN  IF f.model = "" THEN skip
                 ELSE IF f.model \notin reg THEN skip
                 ELSE IF ~isNotCycle(f.model, h) THEN skip
                 ELSE LET h2 == Visit(f.model, h)
                          own == Prop(instance.attrs, f.name)
                          fk  == IF Truthy(own) THEN own ELSE ForeignKey(instance, f)
                          r == IF f.rel = "one"
                               THEN GetFrom(st, reg, f.model, ToStr(fk), h2, path, ord)
                               ELSE IF f.rel = "many"
                               THEN ListFrom(st, reg, f.model,
                                        Options(<<[k |-> f.remoteKey,
                                                   v |-> ForeignKey(instance, f)]>>),
                                        h2, path, Listed(st, f.model, ord), <<>>, ord)
                               ELSE Threw("none", 0, h2)
                          got == [instance EXCEPT !.rels =
                                    WithProp(@, f.name,
                                        [kind |-> f.rel,
                                         items |-> IF f.rel = "one" THEN <<r.inst>>
                                                   ELSE r.list])]
                      IN  IF r.status = "diverged" THEN Diverges(r.h)
                          ELSE IF r.status = "error"
                          THEN Threw(r.error, r.code, r.h)
                          ELSE buildRelations(st, reg,
                                   IF r.status = "ok" THEN got ELSE instance,
                                   r.h, path, i + 1, ord)

\* Table.get(index, queryHelper) with index already a raw key value.  path is
\* the set of get calls in progress: with a helper that is no QueryHelper the
\* call get(m, index) inside itself repeats for ever, the store being the same.
GetFrom(st, reg, m, indexText, h, path, ord) ==
    LET raw == HGETALL(st, RecordKey(m, indexText))
    IN  IF h.kind = "other" /\ <<m, indexText>> \in path THEN Diverges(h)
        ELSE IF DOMAIN raw = {} THEN Threw("EntryNotFound", 404, h)
        ELSE IF ~ParseOk(KeyMap(m), raw) THEN Threw("SyntaxError", 0, h)
        ELSE LET instance == Instance(m, parseFromString(KeyMap(m), raw))
                 helper   == IF h.kind = "none" THEN QueryHelper(m) ELSE h
                 r == buildRelations(st, reg, instance, helper,
                                     path \cup {<<m, indexText>>}, 1, ord)
             IN  IF h.kind = "none" THEN [r EXCEPT !.h = h] ELSE r

\* instance.buildRelations(queryHelper), from field i of the field map on
buildRelations(st, reg, instance, h, path, i, ord) ==
    LET map == KeyMap(instance.model)
    IN  IF i > Len(map) THEN Returned(instance, <<>>, h)
        ELSE LET f == map[i]
                 skip == buildRelations(st, reg, instance, h, path, i + 1, ord)
             IN  IF f.model = "" THEN skip
                 ELSE IF f.model \notin reg THEN skip
                 ELSE IF ~isNotCycle(f.model, h) THEN skip
                 ELSE LET h2 == Visit(f.model, h)
                          own == Prop(instance.attrs, f.name)
                          fk  == IF Truthy(own) THEN own ELSE ForeignKey(instance, f)
                      IN  Related(st, reg, instance, path, i, ord, f,
                              IF f.rel = "one"
                              THEN GetFrom(st, reg, f.model, ToStr(fk), h2, path, ord)
                              ELSE IF f.rel = "many"
                              THEN ListFrom(st, reg, f.model,
                                       Options(<<[k |-> f.remoteKey,
                                                  v |-> ForeignKey(instance, f)]>>),
                                       h2, path, Listed(st, f.model, ord), <<>>, ord)
                              ELSE Threw("none", 0, h2))

\* this[key] = the outcome r of the nested load of relation f, unless it
\* threw, and on to the next field
Related(st, reg, instance, path, i, ord, f, r) ==
    IF r.status = "diverged" THEN Diverges(r.h)
    ELSE buildRelations(st, reg,
             IF r.status = "ok"
             THEN [instance EXCEPT !.rels =
                      WithProp(@, f.name,
                          [kind |-> f.rel,
                           items |-> IF f.rel = "one" THEN <<r.inst>> ELSE r.list])]
             ELSE instance,
             r.h, path, i + 1, ord)

\* the loop of Table.listDetail(options, queryHelper) over the listed entries
ListFrom(st, reg, m, options, h, path, entries, out, ord) ==
    IF entries = <<>> THEN Returned(NoInst, out, h)
    ELSE ListNext(st, reg, m, options, path, entries, out, ord,
                  GetFrom(st, reg, m, Head(entries), h, path, ord))

\* listDetail: the outcome r of this.get(entry): an error is thrown on, an
\* instance is pushed and the loop goes on
ListNext(st, reg, m, options, path, entries, out, ord, r) ==
    IF r.status # "ok" THEN r
    ELSE ListFrom(st, reg, m, options, r.h, path, Tail(entries),
                  out \o Repeat(r.inst, Pushes(r.inst, options)),
                  ord)

\* the QueryHelper of the traversal a top-level get makes, as buildRelations
\* of the root and every nested load leave it, with the outcome of the get
Traversal(st, reg, m, indexText, ord) ==
    GetFrom(st, reg, m, indexText, QueryHelper(m), {}, ord)

\* Table.get(index, queryHelper) as a caller invokes it
get(st, reg, m, indexText, h, ord) == GetFrom(st, reg, m, indexText, h, {}, ord)

\* Table.listDetail(options), the helper being its last argument
listDetail(st, reg, m, options, ord) ==
    ListFrom(st, reg, m, options, LastArgument(options), {},
             Listed(st, m, ord), <<>>, ord)

(***************************************************************************)
(* The handlers of Table, each as the store commands it issues in order.   *)
(***************************************************************************)
\* a faulty index resolution, for comparison: an object index is not unwrapped
IndexAsGiven(m, index) == index.value

\* index = index[this._key] when the caller passes an object
ResolveIndex(m, index) ==
    IF index.isObject THEN Prop(index.obj, KeyOf(m)) ELSE index.value

RawIndex(v) == [isObject |-> FALSE, value |-> v, obj |-> EmptyObj]

ObjectIndex(obj) == [isObject |-> TRUE, value |-> Undefined, obj |-> obj]

\* Table.exists(index)
exists(st, m, index) == SISMEMBER(st, SetKey(m), ToStr(ResolveIndex(m, index)))

\* Table.list()
list(st, m, ord) == Listed(st, m, ord)

\* the object a validated record stands for
AsObject(out) == [k \in EntryKeys(out) |-> Entry(out, k)]

RECURSIVE CreateWrites(_, _, _, _)
\* the HSET loop of create from entry i on: undefined values are skipped
CreateWrites(st, hashKey, out, i) ==
    IF i > Len(out) THEN st
    ELSE CreateWrites(
             IF out[i].v = Undefined THEN st
             ELSE HSET(st, hashKey, out[i].k, parseToString(out[i].v)),
             hashKey, out, i + 1)

\* the store after the SADD and the HSET loop of create
CreateStore(st, m, out) ==
    LET key == Entry(out, KeyOf(m))
    IN  CreateWrites(SADD(st, SetKey(m), ToStr(key)),
                     RecordKey(m, ToStr(key)), out, 1)

\* the existence check of create and of update's rename path
KeyTaken(st, m, out) ==
    /\ Truthy(Entry(out, KeyOf(m)))
    /\ exists(st, m, ObjectIndex(AsObject(out)))

\* update takes its rename path
KeyChanges(instance, out) ==
    /\ Truthy(Entry(out, KeyOf(instance.model)))
    /\ Entry(out, KeyOf(instance.model)) # Prop(instance.attrs, KeyOf(instance.model))

\* the SREM, SADD and RENAME of update's rename path
MoveKey(st, instance, out) ==
    LET m      == instance.model
        oldKey == Prop(instance.attrs, KeyOf(m))
        newKey == Entry(out, KeyOf(m))
    IN  RENAME(SADD(SREM(st, SetKey(m), ToStr(oldKey)), SetKey(m), ToStr(newKey)),
               RecordKey(m, ToStr(oldKey)), RecordKey(m, ToStr(newKey)))

\* a faulty assignment, for comparison: the other attributes are lost
AssignAlone(instance, k, v) == [instance EXCEPT !.attrs = [x \in {k} |-> v]]

\* this[key] = value
Assign(instance, k, v) ==
    [instance EXCEPT !.attrs = WithProp(@, k, v),
                     !.rels  = [x \in DOMAIN @ \ {k} |-> @[x]]]

\* the hash one HSET of update's loop writes to: named after this[_key] as it
\* is when that HSET is issued
UpdateTarget(instance) ==
    RecordKey(instance.model, ToStr(Prop(instance.attrs, KeyOf(instance.model))))

RECURSIVE UpdateWrites(_, _, _, _)
\* the loop of update from entry i on: assign the attribute, then HSET it
UpdateWrites(st, instance, out, i) ==
    IF i > Len(out) THEN [st |-> st, inst |-> instance]
    ELSE LET assigned == Assign(instance, out[i].k, out[i].v)
         IN  UpdateWrites(HSET(st, UpdateTarget(assigned), out[i].k,
                               parseToString(out[i].v)),
                          assigned, out, i + 1)

\* a faulty remove, for comparison: the record hash is not deleted
RemoveFromSetOnly(st, instance) ==
    SREM(st, SetKey(instance.model),
         ToStr(Prop(instance.attrs, KeyOf(instance.model))))

\* the SREM and DEL of remove
RemoveStore(st, instance) ==
    LET m == instance.model
        k == ToStr(Prop(instance.attrs, KeyOf(m)))
    IN  DEL(SREM(st, SetKey(m), k), RecordKey(m, k))

\* toJSON skips the property: the field map has it and flags it isPrivate
IsPrivate(m, k) == Declares(KeyMap(m), k) /\ SpecOf(KeyMap(m), k).isPrivate

\* a faulty toJSON, for comparison: every own property is copied
toJSONAll(instance) == [attrs |-> instance.attrs, rels |-> instance.rels]

\* instance.toJSON(): the own properties, attributes and resolved relation
\* fields, but the private ones
toJSON(instance) ==
    [attrs |-> [k \in {x \in DOMAIN instance.attrs : ~IsPrivate(instance.model, x)}
                  |-> instance.attrs[k]],
     rels  |-> [k \in {x \in DOMAIN instance.rels : ~IsPrivate(instance.model, x)}
                  |-> instance.rels[k]]]

\* instance.toString()
toString(instance) == Prop(instance.attrs, KeyOf(instance.model))

(***************************************************************************)
(* The record of the last call: what was called, with what, what came back, *)
(* the instance it was called on and the store as it was before the call.  *)
(***************************************************************************)
NoCall ==
    [op |-> "none", m |-> "", index |-> RawIndex(Undefined), input |-> EmptyObj,
     vdata |-> <<>>, errors |-> <<>>, options |-> NoOptions,
     status |-> "ok", error |-> "", code |-> 0,
     inst |-> NoInst, list |-> <<>>, keys |-> <<>>, flag |-> FALSE, same |-> FALSE,
     pre |-> [sets |-> {}, hashes |-> {}], this |-> NoInst,
     json |-> [attrs |-> EmptyObj, rels |-> <<>>], text |-> Undefined,
     raw |-> <<>>, partial |-> FALSE]

\* a call and the outcome r of its nested get or listDetail
Call(op, m, r) ==
    [NoCall EXCEPT !.op = op, !.m = m, !.status = r.status, !.error = r.error,
                   !.code = r.code, !.inst = r.inst, !.list = r.list,
                   !.pre = Store]

ValidationFailed(op, m, d, v) ==
    [Call(op, m, Threw("ObjectValidateError", 422, NoHelper))
        EXCEPT !.input = d, !.errors = v.errors]

NameUsed(op, m, d, v) ==
    [Call(op, m, Threw("EntryNameUsed", 409, NoHelper))
        EXCEPT !.input = d, !.vdata = v.out]

(***************************************************************************)
(* Inputs.                                                                 *)
(***************************************************************************)
Orderings(S) ==
    {p \in [1..Cardinality(S) -> S] : \A i, j \in 1..Cardinality(S) : p[i] = p[j] => i = j}

\* the key values callers use, per model
KeyTexts(m) ==
    CASE m = "Acct"    -> {"", "a", "b"}
      [] m = "User"    -> {"u"}
      [] m = "Post"    -> {"p", "q"}
      [] m = "Author"  -> {"w"}
      [] m = "Book"    -> {"j", "k"}
      [] m = "Review"  -> {"r", "s"}
      [] m = "Doc"     -> {"", "a"}
      [] m = "Tag"     -> {"x", "x_y"}
      [] m = "Tag_x"   -> {"y"}
      [] OTHER         -> {"c"}

\* the orders in which the store may list the members of the sets of ms
Orders(ms) ==
    {ord \in [ms -> UNION {Orderings(KeyTexts(m)) : m \in ms}] :
        \A m \in ms : ord[m] \in Orderings(KeyTexts(m))}

CrudOrders == Orders(CrudModels)

RelOrders == Orders(RelModels)

TreeOrders == Orders(TreeModels)

NameOrders == Orders(NameModels)

\* an object literal whose undefined properties are left out
Present(c) == [k \in {x \in DOMAIN c : c[x] # Undefined} |-> c[k]]

\* objects with some of the given properties: every choice of one candidate
\* per property, a candidate of Undefined meaning the property is left out
Objects(cands) ==
    {[k \in {x \in DOMAIN c : c[x] # Undefined} |-> c[k]] :
        c \in {c \in [DOMAIN cands -> UNION Range(cands)] :
                   \A k \in DOMAIN cands : c[k] \in cands[k]}}

\* the data objects callers pass to create and update
DataOf(m) ==
    CASE m = "Acct" ->
           Objects([age      |-> {Undefined} \cup {Num(n) : n \in 1..MaxAge},
                    username |-> {Undefined} \cup {Str(k) : k \in KeyTexts("Acct")},
                    active   |-> {Undefined, Bool(FALSE)}])
           \cup {[username |-> Str("a"), age |-> Num(0)],
                 [age |-> Str("x")],
                 [username |-> Str("b"), role |-> Str("x")]}
      [] m = "User" ->
           {[id |-> Str(k)] : k \in KeyTexts("User")}
      [] m = "Post" ->
           {[id |-> Str(k), userId |-> Str(u)] : k \in KeyTexts("Post"), u \in {"u", "v"}}
      [] m = "Author" ->
           {[id |-> Str(k)] : k \in KeyTexts("Author")}
      [] m = "Book" ->
           {[id |-> Str(k), authorId |-> Str("w")] : k \in KeyTexts("Book")}
      [] m = "Review" ->
           {[id |-> Str(k), bookId |-> Str(j), authorId |-> Str("w")] :
               k \in KeyTexts("Review"), j \in KeyTexts("Book")}
      [] m = "Doc" ->
           {Present([name |-> n, secret |-> s, count |-> c, flag |-> f,
                     meta |-> e, extra |-> x]) :
               n \in {Undefined} \cup {Str(k) : k \in KeyTexts("Doc")},
               s \in {Undefined, Str("x"), Str("y")},
               c \in {Undefined, Str("1")} \cup {Num(i) : i \in 0..(MaxAge + 1)},
               f \in {Undefined, Bool(TRUE), Bool(FALSE)},
               e \in {Undefined, Bool(TRUE)} \cup {Obj(id) : id \in ObjIds},
               x \in {Undefined, Str("e")}}
      [] m \in NameModels ->
           {[id |-> Str(k), label |-> Str(l)] : k \in KeyTexts(m), l \in {"s", "t"}}
      [] OTHER ->
           {[id |-> Str(k), postId |-> Str(q), userId |-> Str("u")] :
               k \in KeyTexts("Comment"), q \in KeyTexts("Post")}

Inputs == [m \in AllModels |-> DataOf(m)]

\* the index arguments callers pass to get and exists
Indexes ==
    [m \in AllModels |->
        {RawIndex(Str(k)) : k \in KeyTexts(m)}
        \cup {ObjectIndex([x \in {KeyOf(m)} |-> Str(k)]) : k \in KeyTexts(m)}]

\* the options callers pass to listDetail
OptionSets ==
    [m \in AllModels |->
        CASE m = "Acct" ->
               {NoOptions, Options(<<>>),
                Options(<<[k |-> "age", v |-> Num(1)]>>),
                Options(<<[k |-> "age", v |-> Num(1)],
                          [k |-> "active", v |-> Bool(TRUE)]>>)}
          [] m = "Post" ->
               {NoOptions, Options(<<[k |-> "userId", v |-> Str("u")]>>)}
          [] OTHER -> {NoOptions}]

(***************************************************************************)
(* A call in progress, for the command-by-command view: the handler op at  *)
(* position pc, its argument, the validated data out, the instance this it *)
(* was called on (given: as it was when the call was made), the loop index *)
(* i, the reply flag of SISMEMBER, the members keys still to load, the     *)
(* commands it has issued (log, each with the error the store answered, "" *)
(* for none) and its outcome.                                              *)
(***************************************************************************)
Callers == {"c1", "c2"}

NoTask ==
    [op |-> "none", pc |-> "idle", input |-> EmptyObj, index |-> RawIndex(Undefined),
     out |-> <<>>, this |-> NoInst, given |-> NoInst, i |-> 0, flag |-> FALSE,
     keys |-> <<>>, log |-> <<>>, status |-> "", error |-> "", code |-> 0,
     inst |-> NoInst, list |-> <<>>]

(***************************************************************************)
(* The actions: one call of one handler each.  Calls are made one at a     *)
(* time: a call starts when the caller has taken the outcome of the one    *)
(* before it.                                                              *)
(***************************************************************************)
Idle == last.op = "none"

\* Table.create(data)
Create(m, d, ord) ==
    /\ Idle
    /\ UNCHANGED stepVars
    /\ \E v \in {processKeys(KeyMap(m), d, FALSE)} :
          IF ~v.ok
          THEN /\ last' = ValidationFailed("create", m, d, v)
               /\ UNCHANGED <<sets, hashes, models>>
          ELSE IF KeyTaken(Store, m, v.out)
          THEN /\ last' = NameUsed("create", m, d, v)
               /\ UNCHANGED <<sets, hashes, models>>
          ELSE \E st \in {CreateStore(Store, m, v.out)} :
               \E r \in {get(st, models, m, ToStr(Entry(v.out, KeyOf(m))), NoHelper, ord)} :
                  /\ sets' = st.sets
                  /\ hashes' = st.hashes
                  /\ last' = [Call("create", m, r) EXCEPT !.input = d, !.vdata = v.out]
                  /\ UNCHANGED models

\* Table.get(index)
Get(m, index, ord) ==
    /\ Idle
    /\ UNCHANGED stepVars
    /\ \E r \in {get(Store, models, m, ToStr(ResolveIndex(m, index)), NoHelper, ord)} :
          last' = [Call("get", m, r) EXCEPT !.index = index]
    /\ UNCHANGED <<sets, hashes, models>>

\* Table.exists(index)
Exists(m, index) ==
    /\ Idle
    /\ UNCHANGED stepVars
    /\ last' = [Call("exists", m, Returned(NoInst, <<>>, NoHelper))
                   EXCEPT !.index = index, !.flag = exists(Store, m, index)]
    /\ UNCHANGED <<sets, hashes, models>>

\* Table.list()
List(m, ord) ==
    /\ Idle
    /\ UNCHANGED stepVars
    /\ last' = [Call("list", m, Returned(NoInst, <<>>, NoHelper))
                   EXCEPT !.keys = list(Store, m, ord)]
    /\ UNCHANGED <<sets, hashes, models>>

\* Table.listDetail(options)
ListDetail(m, options, ord) ==
    /\ Idle
    /\ UNCHANGED stepVars
    /\ \E r \in {listDetail(Store, models, m, options, ord)} :
          last' = [Call("listDetail", m, r)
                      EXCEPT !.options = options, !.keys = list(Store, m, ord)]
    /\ UNCHANGED <<sets, hashes, models>>

\* the instances update and remove are called on: those get returns for the
\* keys of the member set
Held(m, ord) ==
    {r.inst : r \in {x \in {get(Store, models, m, k, NoHelper, ord) :
                               k \in SMEMBERS(Store, SetKey(m))} :
                        x.status = "ok"}}

\* a faulty update, for comparison: the data is validated in full mode
UpdateStrict(this, d) ==
    /\ Idle
    /\ UNCHANGED stepVars
    /\ \E v \in {processKeys(KeyMap(this.model), d, FALSE)} :
          IF ~v.ok
          THEN /\ last' = [ValidationFailed("update", this.model, d, v)
                              EXCEPT !.this = this, !.inst = this]
               /\ UNCHANGED <<sets, hashes, models>>
          ELSE IF KeyChanges(this, v.out) /\ KeyTaken(Store, this.model, v.out)
          THEN /\ last' = [NameUsed("update", this.model, d, v)
                              EXCEPT !.this = this, !.inst = this]
               /\ UNCHANGED <<sets, hashes, models>>
          ELSE \E st \in {IF KeyChanges(this, v.out)
                          THEN MoveKey(Store, this, v.out) ELSE Store} :
               \E w \in {UpdateWrites(st, this, v.out, 1)} :
                  /\ sets' = w.st.sets
                  /\ hashes' = w.st.hashes
                  /\ last' = [Call("update", this.model,
                                   Returned(w.inst, <<>>, NoHelper))
                                 EXCEPT !.input = d, !.vdata = v.out, !.same = TRUE,
                                        !.this = this]
                  /\ UNCHANGED models

\* instance.update(data)
Update(this, d) ==
    /\ Idle
    /\ UNCHANGED stepVars
    /\ \E v \in {processKeys(KeyMap(this.model), d, TRUE)} :
          IF ~v.ok
          THEN /\ last' = [ValidationFailed("update", this.model, d, v)
                              EXCEPT !.this = this, !.inst = this]
               /\ UNCHANGED <<sets, hashes, models>>
          ELSE IF KeyChanges(this, v.out) /\ KeyTaken(Store, this.model, v.out)
          THEN /\ last' = [NameUsed("update", this.model, d, v)
                              EXCEPT !.this = this, !.inst = this]
               /\ UNCHANGED <<sets, hashes, models>>
          ELSE \E st \in {IF KeyChanges(this, v.out)
                          THEN MoveKey(Store, this, v.out) ELSE Store} :
               \E w \in {UpdateWrites(st, this, v.out, 1)} :
                  /\ sets' = w.st.sets
                  /\ hashes' = w.st.hashes
                  /\ last' = [Call("update", this.model,
                                   Returned(w.inst, <<>>, NoHelper))
                                 EXCEPT !.input = d, !.vdata = v.out, !.same = TRUE,
                                        !.this = this]
                  /\ UNCHANGED models

\* instance.remove()
Remove(this) ==
    /\ Idle
    /\ UNCHANGED stepVars
    /\ \E st \in {RemoveStore(Store, this)} :
          /\ sets' = st.sets
          /\ hashes' = st.hashes
    /\ last' = [Call("remove", this.model, Returned(this, <<>>, NoHelper))
                   EXCEPT !.same = TRUE, !.this = this]
    /\ UNCHANGED models

\* a faulty register, for comparison: each registration starts a fresh map
RegisterAlone(m) ==
    /\ Idle
    /\ UNCHANGED stepVars
    /\ m \notin models
    /\ models' = {m}
    /\ last' = Call("register", m, Returned(NoInst, <<>>, NoHelper))
    /\ UNCHANGED <<sets, hashes>>

\* Table.register(), called on a model
Register(m) ==
    /\ Idle
    /\ UNCHANGED stepVars
    /\ m \notin models
    /\ models' = models \cup {m}
    /\ last' = Call("register", m, Returned(NoInst, <<>>, NoHelper))
    /\ UNCHANGED <<sets, hashes>>

\* on.register(Model): the argument is registered under its own name in the
\* map every model shares, whichever model the call is made on, and a name
\* registered before is set again
RegisterGiven(on, m) ==
    /\ Idle
    /\ UNCHANGED stepVars
    /\ on # m
    /\ models' = models \cup {m}
    /\ last' = Call("register", m, Returned(NoInst, <<>>, NoHelper))
    /\ UNCHANGED <<sets, hashes>>

\* the caller takes the outcome of the call
Settle ==
    /\ ~Idle
    /\ UNCHANGED stepVars
    /\ last' = NoCall
    /\ UNCHANGED <<sets, hashes, models>>

Init ==
    /\ sets = {}
    /\ hashes = {}
    /\ models = {}
    /\ last = NoCall
    /\ calls = [c \in Callers |-> NoTask]
    /\ ready = "none"
    /\ writer = {}

\* Acct declares no relation: no call on it but list and listDetail reads the
\* order of a member set
AnyOrder == CHOOSE ord \in CrudOrders : TRUE

\* the calls of an application with one model of plain fields
Next ==
    \/ \E m \in CrudModels :
          \/ \E d \in Inputs[m] : Create(m, d, AnyOrder)
          \/ \E index \in Indexes[m] : Get(m, index, AnyOrder)
          \/ \E index \in Indexes[m] : Exists(m, index)
          \/ \E ord \in CrudOrders : List(m, ord)
          \/ \E ord \in CrudOrders, options \in OptionSets[m] : ListDetail(m, options, ord)
          \/ \E this \in Held(m, AnyOrder), d \in Inputs[m] : Update(this, d)
          \/ \E this \in Held(m, AnyOrder) : Remove(this)
    \/ Settle

Spec == Init /\ [][Next]_vars

\* the calls of an application with three models related to one another
NextRel ==
    \/ \E m \in RelModels : Register(m)
    \/ \E on \in RelModels, m \in RelModels : RegisterGiven(on, m)
    \/ \E m \in RelModels, ord \in RelOrders :
          \/ \E d \in Inputs[m] : Create(m, d, ord)
          \/ \E index \in Indexes[m] : Get(m, index, ord)
          \/ \E options \in OptionSets[m] : ListDetail(m, options, ord)
    \/ Settle

SpecRel == Init /\ [][NextRel]_vars

\* the calls of an application with three models related without a cycle
NextTree ==
    \/ \E m \in TreeModels : Register(m)
    \/ \E m \in TreeModels, ord \in TreeOrders :
          \/ \E d \in Inputs[m] : Create(m, d, ord)
          \/ \E index \in Indexes[m] : Get(m, index, ord)
          \/ \E options \in OptionSets[m] : ListDetail(m, options, ord)
    \/ Settle

SpecTree == Init /\ [][NextTree]_vars

(***************************************************************************)
(* The handlers one store command at a time.  A call runs from one await   *)
(* to the next in one step: the code up to the next store command and that *)
(* command, which the store applies when it is issued and may answer with  *)
(* an error.  The awaits of ensureClientReady inside the exists and get    *)
(* that create calls find the promise already resolved and are not steps   *)
(* of their own.                                                           *)
(***************************************************************************)
\* the model the callers use
StepModel == CHOOSE m \in CrudModels : TRUE

\* the errors the store may answer a command with; "" is no error
StoreErrors == {"ECONNRESET", "READONLY"}

Replies == {""} \cup StoreErrors

\* the data callers pass to create and to update, and their index arguments
CreateData ==
    {[username |-> Str("a"), age |-> Num(n)] : n \in 1..MaxAge}
    \cup {[username |-> Str("a"), active |-> Bool(FALSE)],
          [username |-> Str("a"), age |-> Num(0)]}

UpdateData ==
    {[username |-> Str("b")], [age |-> Num(1)], [age |-> Num(0)]}

StepIndexes == {RawIndex(Str("a")), ObjectIndex([username |-> Str("b")])}

\* a faulty readiness test, for comparison: the promise is not awaited
ProceedUnready == TRUE

\* ensureClientReady(): the call goes on when no promise was handed to the
\* engine or when the promise has resolved
ensureClientReady == ready \in {"none", "resolved"}

\* client.<cmd>(key, arg) issued by call t and answered with error e
Issue(t, cmd, key, arg, e) ==
    [t EXCEPT !.log = Append(@, [cmd |-> cmd, key |-> key, arg |-> arg, error |-> e])]

\* the call rejects with an error value
Reject(t, name, code) ==
    [t EXCEPT !.pc = "done", !.status = "error", !.error = name, !.code = code]

\* the call resolves
Resolve(t) == [t EXCEPT !.pc = "done", !.status = "ok"]

\* one step of call c: the call becomes t, the store st and the last
\* writers w
Step(c, t, st, w) ==
    /\ calls' = [calls EXCEPT ![c] = t]
    /\ sets' = st.sets
    /\ hashes' = st.hashes
    /\ writer' = w
    /\ UNCHANGED <<models, last, ready>>

\* a faulty await of a command, for comparison: the error of the store is
\* swallowed and the call goes on
CommandSwallows(c, now, next, cmd, key, arg, st, w) ==
    \E e \in Replies :
        IF e = ""
        THEN Step(c, Issue(next, cmd, key, arg, e), st, w)
        ELSE Step(c, Issue(next, cmd, key, arg, e), Store, writer)

\* a faulty await of a command, for comparison: a failure in create takes
\* the key out of the member set again
CommandUndoes(c, now, next, cmd, key, arg, st, w) ==
    \E e \in Replies :
        IF e = ""
        THEN Step(c, Issue(next, cmd, key, arg, e), st, w)
        ELSE Step(c, Reject(Issue(now, cmd, key, arg, e), e, 0),
                  IF now.op = "create"
                  THEN SREM(Store, SetKey(StepModel),
                            ToStr(Entry(now.out, KeyOf(StepModel))))
                  ELSE Store,
                  writer)

\* await client.<cmd>(key, arg) in call c, which is now at the command: the
\* store applies the command, making the store st and the call next, or
\* answers with an error, which the call rejects with
Command(c, now, next, cmd, key, arg, st, w) ==
    \E e \in Replies :
        IF e = ""
        THEN Step(c, Issue(next, cmd, key, arg, e), st, w)
        ELSE Step(c, Reject(Issue(now, cmd, key, arg, e), e, 0), Store, writer)

\* the calls a caller can make
Tasks ==
    {[NoTask EXCEPT !.op = "create", !.input = d] : d \in CreateData}
    \cup {[NoTask EXCEPT !.op = "update", !.input = d, !.this = x, !.given = x] :
             d \in UpdateData, x \in Held(StepModel, AnyOrder)}
    \cup {[NoTask EXCEPT !.op = "remove", !.this = x, !.given = x] :
             x \in Held(StepModel, AnyOrder)}
    \cup {[NoTask EXCEPT !.op = op, !.index = index] :
             op \in {"get", "exists"}, index \in StepIndexes}
    \cup {[NoTask EXCEPT !.op = op] : op \in {"list", "listDetail"}}

\* a caller calls a handler, which runs to its await of ensureClientReady
Invoke(c, t) ==
    /\ calls[c].pc = "idle"
    /\ calls' = [calls EXCEPT ![c] = [t EXCEPT !.pc = "await"]]
    /\ UNCHANGED <<sets, hashes, models, last, ready, writer>>

\* the connection promise resolves
Connect ==
    /\ ready = "pending"
    /\ ready' = "resolved"
    /\ UNCHANGED <<sets, hashes, models, last, calls, writer>>

\* the connection promise rejects
ConnectFails ==
    /\ ready = "pending"
    /\ ready' = "rejected"
    /\ UNCHANGED <<sets, hashes, models, last, calls, writer>>

\* await ensureClientReady() on a rejected promise: the call rejects
Refused(c) ==
    /\ calls[c].pc = "await"
    /\ ready = "rejected"
    /\ Step(c, Reject(calls[c], "ConnectError", 0), Store, writer)

\* a faulty handler, for comparison: the key is added to the member set
\* before the data is validated
ValidateAfterAdd(c) ==
    /\ calls[c].op \in {"create", "update"}
    /\ calls[c].pc = "await"
    /\ ensureClientReady
    /\ \E t \in {calls[c]} :
       \E v \in {processKeys(KeyMap(StepModel), t.input, t.op = "update")} :
          IF ~v.ok
          THEN Step(c,
                    Reject(Issue(t, "SADD", SetKey(StepModel),
                                 ToStr(Prop(t.input, KeyOf(StepModel))), ""),
                           "ObjectValidateError", 422),
                    SADD(Store, SetKey(StepModel),
                         ToStr(Prop(t.input, KeyOf(StepModel)))),
                    writer)
          ELSE Step(c,
                    [t EXCEPT !.out = v.out, !.i = 1,
                              !.pc = IF t.op = "create"
                                     THEN IF Truthy(Entry(v.out, KeyOf(StepModel)))
                                          THEN "check" ELSE "add"
                                     ELSE IF KeyChanges(t.this, v.out)
                                          THEN "check" ELSE "hset"],
                    Store, writer)

\* create and update: processKeys, and where the handler goes from there
Validate(c) ==
    /\ calls[c].op \in {"create", "update"}
    /\ calls[c].pc = "await"
    /\ ensureClientReady
    /\ \E t \in {calls[c]} :
       \E v \in {processKeys(KeyMap(StepModel), t.input, t.op = "update")} :
          IF ~v.ok
          THEN Step(c, Reject(t, "ObjectValidateError", 422), Store, writer)
          ELSE Step(c,
                    [t EXCEPT !.out = v.out, !.i = 1,
                              !.pc = IF t.op = "create"
                                     THEN IF Truthy(Entry(v.out, KeyOf(StepModel)))
                                          THEN "check" ELSE "add"
                                     ELSE IF KeyChanges(t.this, v.out)
                                          THEN "check" ELSE "hset"],
                    Store, writer)

\* the key text of the validated data of a call
NewKey(t) == ToStr(Entry(t.out, KeyOf(StepModel)))

\* the key text of the instance of a call
OwnKey(t) == ToStr(Prop(t.this.attrs, KeyOf(StepModel)))

\* create and update: await this.exists(data)
Check(c) ==
    /\ calls[c].pc = "check"
    /\ \E t \in {calls[c]} :
          Command(c, t,
                  [t EXCEPT !.pc = "checked",
                            !.flag = SISMEMBER(Store, SetKey(StepModel), NewKey(t))],
                  "SISMEMBER", SetKey(StepModel), NewKey(t), Store, writer)

\* create and update: the key is a member, throw EntryNameUsed
Taken(c) ==
    /\ calls[c].pc = "checked"
    /\ calls[c].flag
    /\ Step(c, Reject(calls[c], "EntryNameUsed", 409), Store, writer)

\* create: await client.SADD(set, data[key])
CreateAdd(c) ==
    /\ calls[c].op = "create"
    /\ \/ calls[c].pc = "add"
       \/ calls[c].pc = "checked" /\ ~calls[c].flag
    /\ \E t \in {calls[c]} :
          Command(c, t, [t EXCEPT !.pc = "hset"],
                  "SADD", SetKey(StepModel), NewKey(t),
                  SADD(Store, SetKey(StepModel), NewKey(t)), writer)

RECURSIVE NextDefined(_, _)
\* the first entry from i on whose value is not undefined
NextDefined(out, i) ==
    IF i > Len(out) \/ out[i].v # Undefined THEN i ELSE NextDefined(out, i + 1)

\* the last writers after call c has set a field of a hash
Wrote(c, key, field) ==
    {w \in writer : ~(w[1] = key /\ w[2] = field)} \cup {<<key, field, c>>}

\* create: the next await client.HSET(record, key, text) of the loop
CreateHset(c) ==
    /\ calls[c].op = "create"
    /\ calls[c].pc = "hset"
    /\ \E t \in {calls[c]} :
       \E j \in {NextDefined(t.out, t.i)} :
          /\ j <= Len(t.out)
          /\ Command(c, t, [t EXCEPT !.i = j + 1],
                     "HSET", RecordKey(StepModel, NewKey(t)), t.out[j].k,
                     HSET(Store, RecordKey(StepModel, NewKey(t)), t.out[j].k,
                          parseToString(t.out[j].v)),
                     Wrote(c, RecordKey(StepModel, NewKey(t)), t.out[j].k))

\* the end of get on the reply raw of HGETALL
ReadReply(t, raw) ==
    IF DOMAIN raw = {} THEN Reject(t, "EntryNotFound", 404)
    ELSE IF ~ParseOk(KeyMap(StepModel), raw) THEN Reject(t, "SyntaxError", 0)
    ELSE [Resolve(t) EXCEPT
             !.inst = Instance(StepModel, parseFromString(KeyMap(StepModel), raw))]

\* create: return await this.get(data[key])
CreateReload(c) ==
    /\ calls[c].op = "create"
    /\ calls[c].pc = "hset"
    /\ \E t \in {calls[c]} :
          /\ NextDefined(t.out, t.i) > Len(t.out)
          /\ Command(c, t,
                     ReadReply(t, HGETALL(Store, RecordKey(StepModel, NewKey(t)))),
                     "HGETALL", RecordKey(StepModel, NewKey(t)), "", Store, writer)

\* update: await client.SREM(set, this[key])
UpdateSrem(c) ==
    /\ calls[c].op = "update"
    /\ calls[c].pc = "checked"
    /\ ~calls[c].flag
    /\ \E t \in {calls[c]} :
          Command(c, t, [t EXCEPT !.pc = "sadd"],
                  "SREM", SetKey(StepModel), OwnKey(t),
                  SREM(Store, SetKey(StepModel), OwnKey(t)), writer)

\* update: await client.SADD(set, data[key])
UpdateSadd(c) ==
    /\ calls[c].pc = "sadd"
    /\ \E t \in {calls[c]} :
          Command(c, t, [t EXCEPT !.pc = "rename"],
                  "SADD", SetKey(StepModel), NewKey(t),
                  SADD(Store, SetKey(StepModel), NewKey(t)), writer)

\* the last writers after RENAME: they move with the hash
Moved(oldKey, newKey) ==
    IF \A h \in hashes : h[1] # oldKey THEN writer
    ELSE {w \in writer : w[1] \notin {oldKey, newKey}}
         \cup {<<newKey, w[2], w[3]>> : w \in {x \in writer : x[1] = oldKey}}

\* update: await client.RENAME(old record, new record)
UpdateRename(c) ==
    /\ calls[c].pc = "rename"
    /\ \E t \in {calls[c]} :
          Command(c, t, [t EXCEPT !.pc = "hset"],
                  "RENAME", RecordKey(StepModel, OwnKey(t)),
                  RecordKey(StepModel, NewKey(t)),
                  RENAME(Store, RecordKey(StepModel, OwnKey(t)),
                         RecordKey(StepModel, NewKey(t))),
                  Moved(RecordKey(StepModel, OwnKey(t)),
                        RecordKey(StepModel, NewKey(t))))

\* update: this[key] = data[key], then await client.HSET(record, key, text)
UpdateHset(c) ==
    /\ calls[c].op = "update"
    /\ calls[c].pc = "hset"
    /\ calls[c].i <= Len(calls[c].out)
    /\ \E e \in {calls[c].out[calls[c].i]} :
       \E t \in {[calls[c] EXCEPT !.this = Assign(@, e.k, e.v)]} :
          Command(c, t, [t EXCEPT !.i = @ + 1],
                  "HSET", UpdateTarget(t.this), e.k,
                  HSET(Store, UpdateTarget(t.this), e.k, parseToString(e.v)),
                  Wrote(c, UpdateTarget(t.this), e.k))

\* update: return this
UpdateReturn(c) ==
    /\ calls[c].op = "update"
    /\ calls[c].pc = "hset"
    /\ calls[c].i > Len(calls[c].out)
    /\ Step(c, [Resolve(calls[c]) EXCEPT !.inst = calls[c].this], Store, writer)

\* remove: await client.SREM(set, this[key])
RemoveSrem(c) ==
    /\ calls[c].op = "remove"
    /\ calls[c].pc = "await"
    /\ ensureClientReady
    /\ \E t \in {calls[c]} :
          Command(c, t, [t EXCEPT !.pc = "del"],
                  "SREM", SetKey(StepModel), OwnKey(t),
                  SREM(Store, SetKey(StepModel), OwnKey(t)), writer)

\* remove: await client.DEL(record), return this
RemoveDel(c) ==
    /\ calls[c].pc = "del"
    /\ \E t \in {calls[c]} :
          Command(c, t, [Resolve(t) EXCEPT !.inst = t.this],
                  "DEL", RecordKey(StepModel, OwnKey(t)), "",
                  DEL(Store, RecordKey(StepModel, OwnKey(t))),
                  {w \in writer : w[1] # RecordKey(StepModel, OwnKey(t))})

\* a faulty get, for comparison: it adds the key it was asked for to the
\* member set
GetReadAdds(c) ==
    /\ calls[c].op = "get"
    /\ calls[c].pc = "await"
    /\ ensureClientReady
    /\ \E t \in {calls[c]} :
       \E key \in {RecordKey(StepModel, ToStr(ResolveIndex(StepModel, t.index)))} :
          Command(c, t, ReadReply(t, HGETALL(Store, key)),
                  "HGETALL", key, "",
                  SADD(Store, SetKey(StepModel), ToStr(ResolveIndex(StepModel, t.index))),
                  writer)

\* get: await client.HGETALL(record), parse, return the instance
GetRead(c) ==
    /\ calls[c].op = "get"
    /\ calls[c].pc = "await"
    /\ ensureClientReady
    /\ \E t \in {calls[c]} :
       \E key \in {RecordKey(StepModel, ToStr(ResolveIndex(StepModel, t.index)))} :
          Command(c, t, ReadReply(t, HGETALL(Store, key)),
                  "HGETALL", key, "", Store, writer)

\* exists: return Boolean(await client.SISMEMBER(set, index))
ExistsAsk(c) ==
    /\ calls[c].op = "exists"
    /\ calls[c].pc = "await"
    /\ ensureClientReady
    /\ \E t \in {calls[c]} :
       \E member \in {ToStr(ResolveIndex(StepModel, t.index))} :
          Command(c, t,
                  [Resolve(t) EXCEPT
                      !.flag = SISMEMBER(Store, SetKey(StepModel), member)],
                  "SISMEMBER", SetKey(StepModel), member, Store, writer)

\* list: return await client.SMEMBERS(set)
ListRead(c) ==
    /\ calls[c].op = "list"
    /\ calls[c].pc = "await"
    /\ ensureClientReady
    /\ \E t \in {calls[c]}, ord \in CrudOrders :
          Command(c, t, [Resolve(t) EXCEPT !.keys = Listed(Store, StepModel, ord)],
                  "SMEMBERS", SetKey(StepModel), "", Store, writer)

\* listDetail: await this.list()
ListDetailRead(c) ==
    /\ calls[c].op = "listDetail"
    /\ calls[c].pc = "await"
    /\ ensureClientReady
    /\ \E t \in {calls[c]}, ord \in CrudOrders :
          Command(c, t,
                  [t EXCEPT !.pc = "each", !.keys = Listed(Store, StepModel, ord)],
                  "SMEMBERS", SetKey(StepModel), "", Store, writer)

\* listDetail: await this.get(entry) for the next member, out.push(instance)
ListDetailGet(c) ==
    /\ calls[c].pc = "each"
    /\ calls[c].keys # <<>>
    /\ \E t \in {calls[c]} :
       \E r \in {ReadReply(t, HGETALL(Store, RecordKey(StepModel, Head(t.keys))))} :
          Command(c, t,
                  IF r.status = "error" THEN r
                  ELSE [t EXCEPT !.keys = Tail(@), !.list = Append(@, r.inst)],
                  "HGETALL", RecordKey(StepModel, Head(t.keys)), "", Store, writer)

\* listDetail: return out
ListDetailReturn(c) ==
    /\ calls[c].pc = "each"
    /\ calls[c].keys = <<>>
    /\ Step(c, Resolve(calls[c]), Store, writer)

\* the caller takes the outcome of its call
Return(c) ==
    /\ calls[c].pc = "done"
    /\ Step(c, NoTask, Store, {w \in writer : w[3] # c})

\* the engine set up directly, with no promise, or as src/index.js sets it
\* up: handed the caller's client with a resolved promise, or a client it
\* creates with the promise of connect()
InitSteps ==
    /\ sets = {}
    /\ hashes = {}
    /\ models = {}
    /\ last = NoCall
    /\ calls = [c \in Callers |-> NoTask]
    /\ ready \in {"none", "resolved", "pending"}
    /\ writer = {}

\* the calls of one caller, each made when the one before it has returned
NextSteps ==
    \/ Connect
    \/ ConnectFails
    \/ \E c \in {"c1"} :
          \/ \E t \in Tasks : Invoke(c, t)
          \/ Refused(c)
          \/ Validate(c)
          \/ Check(c)
          \/ Taken(c)
          \/ CreateAdd(c)
          \/ CreateHset(c)
          \/ CreateReload(c)
          \/ UpdateSrem(c)
          \/ UpdateSadd(c)
          \/ UpdateRename(c)
          \/ UpdateHset(c)
          \/ UpdateReturn(c)
          \/ RemoveSrem(c)
          \/ RemoveDel(c)
          \/ GetRead(c)
          \/ ExistsAsk(c)
          \/ ListRead(c)
          \/ ListDetailRead(c)
          \/ ListDetailGet(c)
          \/ ListDetailReturn(c)
          \/ Return(c)

SpecSteps == InitSteps /\ [][NextSteps]_vars

\* the create calls of two callers, in progress together
NextRace ==
    \/ Connect
    \/ ConnectFails
    \/ \E c \in Callers :
          \/ \E t \in {x \in Tasks : x.op = "create"} : Invoke(c, t)
          \/ Refused(c)
          \/ Validate(c)
          \/ Check(c)
          \/ Taken(c)
          \/ CreateAdd(c)
          \/ CreateHset(c)
          \/ CreateReload(c)
          \/ Return(c)

SpecRace == InitSteps /\ [][NextRace]_vars

\* the data of calls that set nothing but the key, the empty key among them
KeyData == {[username |-> Str(k)] : k \in {"", "a", "b"}}

\* the calls that write a key
KeyTasks ==
    {[NoTask EXCEPT !.op = "create", !.input = d] : d \in KeyData}
    \cup {[NoTask EXCEPT !.op = "update", !.input = d, !.this = x, !.given = x] :
             d \in KeyData, x \in Held(StepModel, AnyOrder)}
    \cup {[NoTask EXCEPT !.op = "remove", !.this = x, !.given = x] :
             x \in Held(StepModel, AnyOrder)}

\* the writing calls of one caller, each made when the one before it has
\* returned
NextKeys ==
    \/ Connect
    \/ ConnectFails
    \/ \E c \in {"c1"} :
          \/ \E t \in KeyTasks : Invoke(c, t)
          \/ Refused(c)
          \/ Validate(c)
          \/ Check(c)
          \/ Taken(c)
          \/ CreateAdd(c)
          \/ CreateHset(c)
          \/ CreateReload(c)
          \/ UpdateSrem(c)
          \/ UpdateSadd(c)
          \/ UpdateRename(c)
          \/ UpdateHset(c)
          \/ UpdateReturn(c)
          \/ RemoveSrem(c)
          \/ RemoveDel(c)
          \/ Return(c)

SpecKeys == InitSteps /\ [][NextKeys]_vars

\* a store that holds one record, as a create leaves it
InitMix ==
    /\ \E st \in {CreateStore([sets |-> {}, hashes |-> {}], StepModel,
                             processKeys(KeyMap(StepModel),
                                         [username |-> Str("a")], FALSE).out)} :
          /\ sets = st.sets
          /\ hashes = st.hashes
    /\ models = {}
    /\ last = NoCall
    /\ calls = [c \in Callers |-> NoTask]
    /\ ready = "none"
    /\ writer = {}

\* one call of each of two callers, in progress together: a create, update,
\* remove or listDetail
NextMix ==
    \E c \in Callers :
        \/ \E t \in {x \in Tasks : x.op \in {"create", "update", "remove", "listDetail"}} :
              Invoke(c, t)
        \/ Validate(c)
        \/ Check(c)
        \/ Taken(c)
        \/ CreateAdd(c)
        \/ CreateHset(c)
        \/ CreateReload(c)
        \/ UpdateSrem(c)
        \/ UpdateSadd(c)
        \/ UpdateRename(c)
        \/ UpdateHset(c)
        \/ UpdateReturn(c)
        \/ RemoveSrem(c)
        \/ RemoveDel(c)
        \/ ListDetailRead(c)
        \/ ListDetailGet(c)
        \/ ListDetailReturn(c)

SpecMix == InitMix /\ [][NextMix]_vars

\* the calls of an application with two models whose names overlap
NextNames ==
    \/ \E m \in NameModels, ord \in NameOrders :
          \/ \E d \in Inputs[m] : Create(m, d, ord)
          \/ \E index \in Indexes[m] : Get(m, index, ord)
          \/ \E this \in Held(m, ord) : Remove(this)
    \/ Settle

SpecNames == Init /\ [][NextNames]_vars

(***************************************************************************)
(* The functions that touch no store, each applied to what an application  *)
(* can hand it: the constructor with toJSON and toString, processKeys, and *)
(* parseToString on every field of a record followed by parseFromString.   *)
(***************************************************************************)
\* new Model(data): every property of data is copied
New(m, d) ==
    /\ Idle
    /\ last' = [Call("new", m, Returned(Instance(m, d), <<>>, NoHelper))
                   EXCEPT !.input = d]
    /\ UNCHANGED <<sets, hashes, models, stepVars>>

\* instance.toJSON() on the instance just built
CallToJSON ==
    /\ last.op = "new"
    /\ last' = [last EXCEPT !.op = "toJSON", !.this = last.inst,
                            !.json = toJSON(last.inst)]
    /\ UNCHANGED <<sets, hashes, models, stepVars>>

\* instance.toString() on the instance just built
CallToString ==
    /\ last.op = "new"
    /\ last' = [last EXCEPT !.op = "toString", !.this = last.inst,
                            !.text = toString(last.inst)]
    /\ UNCHANGED <<sets, hashes, models, stepVars>>

\* processKeys(map, data, partial)
ProcessKeys(m, d, partial) ==
    /\ Idle
    /\ \E v \in {processKeys(KeyMap(m), d, partial)} :
          last' = [(IF v.ok
                    THEN Call("processKeys", m, Returned(NoInst, <<>>, NoHelper))
                    ELSE Call("processKeys", m,
                              Threw("ObjectValidateError", 422, NoHelper)))
                      EXCEPT !.input = d, !.vdata = v.out, !.errors = v.errors,
                             !.partial = partial]
    /\ UNCHANGED <<sets, hashes, models, stepVars>>

\* parseToString(value) for every field of the record processKeys accepted
ToStrings ==
    /\ last.op = "processKeys"
    /\ last.status = "ok"
    /\ last' = [last EXCEPT !.op = "parseToString",
                            !.raw = [k \in DOMAIN last.input |->
                                        parseToString(last.input[k])]]
    /\ UNCHANGED <<sets, hashes, models, stepVars>>

\* parseFromString(map, texts) on the texts just made
FromStrings ==
    /\ last.op = "parseToString"
    /\ last' = [last EXCEPT !.op = "parseFromString",
                            !.inst = Instance(last.m,
                                              parseFromString(KeyMap(last.m), last.raw))]
    /\ UNCHANGED <<sets, hashes, models, stepVars>>

NextPure ==
    \/ \E m \in PureModels :
          \/ \E d \in Inputs[m] : New(m, d)
          \/ \E d \in Inputs[m], partial \in BOOLEAN : ProcessKeys(m, d, partial)
    \/ CallToJSON
    \/ CallToString
    \/ ToStrings
    \/ FromStrings
    \/ Settle

SpecPure == Init /\ [][NextPure]_vars

(***************************************************************************)
(* What a caller can observe of a state.                                   *)
(***************************************************************************)
\* the keys in the member set of a model
Members(st, m) == SMEMBERS(st, SetKey(m))

\* String(instance[_key])
KeyText(instance) == ToStr(Prop(instance.attrs, KeyOf(instance.model)))

\* what a get of key k would return from store st
Reload(st, m, k) == get(st, models, m, k, NoHelper, AnyOrder)

\* the entries of a validated record whose value is defined
Defined(out) ==
    [k \in {x \in EntryKeys(out) : Entry(out, x) # Undefined} |-> Entry(out, k)]

Called(op) == last.op = op

Succeeded(op) == last.op = op /\ last.status = "ok"

\* the update just made names a key value other than the instance's
NamesOtherKey ==
    /\ KeyOf(last.m) \in EntryKeys(last.vdata)
    /\ Entry(last.vdata, KeyOf(last.m)) # Prop(last.this.attrs, KeyOf(last.m))

(***************************************************************************)
(* C1.  After a successful update whose key value differs from the         *)
(* instance's and is unused, get(oldKey) fails with EntryNotFound and      *)
(* get(newKey) succeeds with every field the update did not write holding  *)
(* its previous value, wherever the key field sits in the schema.          *)
(***************************************************************************)
C1_RenameMovesRecord ==
    (Succeeded("update") /\ KeyChanges(last.this, last.vdata)) =>
        LET oldKey == KeyText(last.this)
            newKey == ToStr(Entry(last.vdata, KeyOf(last.m)))
            old    == Reload(Store, last.m, oldKey)
            new    == Reload(Store, last.m, newKey)
        IN  /\ old.status = "error"
            /\ old.error = "EntryNotFound"
            /\ new.status = "ok"
            /\ \A k \in DOMAIN last.this.attrs \ EntryKeys(last.vdata) :
                  Prop(new.inst.attrs, k) = last.this.attrs[k]

(***************************************************************************)
(* C2.  With every related model registered, a top-level get without a     *)
(* QueryHelper terminates, and each 'many' relation field of the root      *)
(* holds the children whose remoteKey equals the root's local key.         *)
(***************************************************************************)
ChildKeys(f, root) ==
    {k \in Members(Store, f.model) :
        LET row == HGETALL(Store, RecordKey(f.model, k))
        IN  /\ f.remoteKey \in DOMAIN row
            /\ row[f.remoteKey] = ToStr(ForeignKey(root, f))}

C2_GetPopulatesRootChildren ==
    Called("get") =>
        /\ last.status # "diverged"
        /\ last.status = "ok" =>
              \A i \in 1..Len(KeyMap(last.m)) :
                  LET f == KeyMap(last.m)[i]
                  IN  (f.rel = "many" /\ f.model \in models) =>
                          /\ f.name \in DOMAIN last.inst.rels
                          /\ {KeyText(c) : c \in Range(last.inst.rels[f.name].items)}
                                 = ChildKeys(f, last.inst)

(***************************************************************************)
(* C3.  A top-level listDetail(options) with a filter object and no        *)
(* QueryHelper terminates on models with circular relations and returns    *)
(* the instances matching the filter.                                      *)
(***************************************************************************)
C3_FilteredListDetailTerminates ==
    (Called("listDetail") /\ last.options.given /\ last.options.pairs # <<>>) =>
        /\ last.status = "ok"
        /\ {KeyText(x) : x \in Range(last.list)}
              = {k \in Members(Store, last.m) :
                    \A i \in 1..Len(last.options.pairs) :
                        LET row == HGETALL(Store, RecordKey(last.m, k))
                            o   == last.options.pairs[i]
                        IN  o.k \in DOMAIN row /\ row[o.k] = ToStr(o.v)}

(***************************************************************************)
(* C4.  listDetail with a non-empty options object returns exactly the     *)
(* stored instances whose attributes equal every pair of the options, each *)
(* once, in the order of the member list; without options it returns one   *)
(* instance per key of the member list.                                    *)
(***************************************************************************)
\* the instance of each key of the member list the call read
Loaded == [i \in 1..Len(last.keys) |-> Reload(Store, last.m, last.keys[i]).inst]

MatchesAll(instance, pairs) ==
    \A i \in 1..Len(pairs) : Prop(instance.attrs, pairs[i].k) = pairs[i].v

MatchesSome(instance, pairs) ==
    \E i \in 1..Len(pairs) : Prop(instance.attrs, pairs[i].k) = pairs[i].v

C4_ListDetailMatchesAllPairs ==
    Succeeded("listDetail") =>
        /\ ~last.options.given => last.list = Loaded
        /\ (last.options.given /\ last.options.pairs # <<>>) =>
              last.list = SelectSeq(Loaded, LAMBDA x : MatchesAll(x, last.options.pairs))

C4_Witness ==
    /\ Succeeded("listDetail")
    /\ Len(last.options.pairs) = 2
    /\ \E i \in 1..Len(last.keys) : MatchesAll(Loaded[i], last.options.pairs)
    /\ \E i \in 1..Len(last.keys) :
          /\ MatchesSome(Loaded[i], last.options.pairs)
          /\ ~MatchesAll(Loaded[i], last.options.pairs)

(***************************************************************************)
(* C5.  A create of schema-valid data whose key is not in the member set   *)
(* succeeds, and both the instance it returns and a later get of the key   *)
(* hold exactly the validated data with the defaults filled in, each field *)
(* in its declared type.                                                   *)
(***************************************************************************)
C5_CreateYieldsValidatedData ==
    (Called("create") /\ last.vdata # <<>>
       /\ ToStr(Entry(last.vdata, KeyOf(last.m))) \notin Members(last.pre, last.m)) =>
        /\ last.status = "ok"
        /\ last.inst.attrs = Defined(last.vdata)
        /\ Reload(Store, last.m, ToStr(Entry(last.vdata, KeyOf(last.m)))).inst.attrs
              = Defined(last.vdata)

(***************************************************************************)
(* C6.  A create of valid data whose key value is already in the member    *)
(* set fails with EntryNameUsed, status 409, and leaves the member set and *)
(* the record hashes as they were.                                         *)
(***************************************************************************)
C6_DuplicateCreateRejected ==
    (Called("create") /\ last.vdata # <<>>
       /\ ToStr(Entry(last.vdata, KeyOf(last.m))) \in Members(last.pre, last.m)) =>
        /\ last.status = "error"
        /\ last.error = "EntryNameUsed"
        /\ last.code = 409
        /\ Store = last.pre

(***************************************************************************)
(* C7.  get fails with EntryNotFound, status 404, exactly when the record  *)
(* hash of the key is empty or absent, and otherwise returns an instance   *)
(* of the calling model built from that hash; an object holding the key    *)
(* field stands for the raw key value.                                     *)
(***************************************************************************)
\* the key value a get was asked for
AskedKey ==
    IF last.index.isObject THEN Prop(last.index.obj, KeyOf(last.m))
    ELSE last.index.value

C7_GetNotFoundIffNoHash ==
    Called("get") =>
        LET row == HGETALL(Store, RecordKey(last.m, ToStr(AskedKey)))
        IN  /\ (DOMAIN row = {}) <=>
                  (last.status = "error" /\ last.error = "EntryNotFound"
                     /\ last.code = 404)
            /\ (DOMAIN row # {}) =>
                  /\ last.status = "ok"
                  /\ last.inst.model = last.m
                  /\ last.inst.attrs = parseFromString(KeyMap(last.m), row)

C7_Witness ==
    /\ Succeeded("get")
    /\ last.index.isObject
    /\ Truthy(AskedKey)

(***************************************************************************)
(* C8.  After remove on an instance of a created record, exists(key) is    *)
(* false, get(key) fails with EntryNotFound, list() lacks the key, the     *)
(* other keys and records of the model are as before, and remove returns   *)
(* the instance it was called on.                                          *)
(***************************************************************************)
OtherRows(st, hashKey) == {h \in st.hashes : h[1] # hashKey}

C9_ListIsLiveKeys ==
    LET before == Members(last.pre, last.m)
        now    == Members(Store, last.m)
    IN  /\ Called("list") =>
              /\ Range(last.keys) = now
              /\ Len(last.keys) = Cardinality(now)
        /\ Called("exists") => (last.flag <=> ToStr(AskedKey) \in now)
        /\ Succeeded("create") =>
              now = before \cup {ToStr(Entry(last.vdata, KeyOf(last.m)))}
        /\ Called("remove") => now = before \ {KeyText(last.this)}
        /\ (Succeeded("update") /\ NamesOtherKey) =>
              now = (before \ {KeyText(last.this)})
                       \cup {ToStr(Entry(last.vdata, KeyOf(last.m)))}
        /\ (Succeeded("update") /\ ~NamesOtherKey) => now = before
        /\ (last.op \in {"create", "update"} /\ last.status # "ok") => now = before
        /\ last.op \in {"get", "list", "exists", "listDetail"} => now = before

(***************************************************************************)
(* C10.  A successful update that does not name another key value changes, *)
(* in the record hash and in the instance, only the fields of the          *)
(* validated data: every other field of the hash, every other attribute,   *)
(* the member set and every other record are as before, and update returns *)
(* the instance it was called on, mutated.                                 *)
(***************************************************************************)
C10_UpdateTouchesOnlyItsFields ==
    (Succeeded("update") /\ ~NamesOtherKey) =>
        LET hashKey == RecordKey(last.m, KeyText(last.this))
            before  == HGETALL(last.pre, hashKey)
            after   == HGETALL(Store, hashKey)
            written == EntryKeys(last.vdata)
        IN  /\ sets = last.pre.sets
            /\ OtherRows(Store, hashKey) = OtherRows(last.pre, hashKey)
            /\ DOMAIN after = DOMAIN before \cup written
            /\ \A f \in DOMAIN before \ written : after[f] = before[f]
            /\ \A f \in written : after[f] = parseToString(Entry(last.vdata, f))
            /\ DOMAIN last.inst.attrs = DOMAIN last.this.attrs \cup written
            /\ \A a \in DOMAIN last.this.attrs \ written :
                  last.inst.attrs[a] = last.this.attrs[a]
            /\ \A a \in written : last.inst.attrs[a] = Entry(last.vdata, a)
            /\ last.same

C10_Witness ==
    /\ Succeeded("update")
    /\ ~NamesOtherKey
    /\ "age" \in EntryKeys(last.vdata)
    /\ "age" \notin DOMAIN last.this.attrs
    /\ KeyOf(last.m) \notin EntryKeys(last.vdata)
    /\ Cardinality(Members(Store, last.m)) > 1

(***************************************************************************)
(* C11.  An update whose validated data names a key value other than the   *)
(* instance's, already in the member set, fails with EntryNameUsed, status *)
(* 409, and leaves the member set, the record hashes and the instance as   *)
(* they were.                                                              *)
(***************************************************************************)
C11_RenameToUsedKeyRejected ==
    (Called("update") /\ last.vdata # <<>> /\ NamesOtherKey
       /\ ToStr(Entry(last.vdata, KeyOf(last.m))) \in Members(last.pre, last.m)) =>
        /\ last.status = "error"
        /\ last.error = "EntryNameUsed"
        /\ last.code = 409
        /\ Store = last.pre
        /\ last.inst = last.this

(***************************************************************************)
(* C16.  get never fails because of a relation: when the record hash of    *)
(* the requested key is not empty get returns the instance, and a relation *)
(* field whose resolution fails (its model is not registered, or the       *)
(* record a 'one' names is not found) is left unset while the other        *)
(* relation fields of the instance, whose own resolution does not fail,    *)
(* are resolved.                                                           *)
(***************************************************************************)
RelationFields(m) == {f \in Range(KeyMap(m)) : f.model # ""}

\* the key text a 'one' relation looks its target up by
TargetText(f, owner) ==
    ToStr(IF Truthy(Prop(owner.attrs, f.name)) THEN Prop(owner.attrs, f.name)
          ELSE Prop(owner.attrs, IF f.localKey # "" THEN f.localKey
                                 ELSE KeyOf(owner.model)))

\* the resolution of relation field f of owner fails
Fails(f, owner) ==
    \/ f.model \notin models
    \/ /\ f.rel = "one"
       /\ DOMAIN HGETALL(Store, RecordKey(f.model, TargetText(f, owner))) = {}

Matching(m, remoteKey, value) ==
    {parseFromString(KeyMap(m), HGETALL(Store, RecordKey(m, k))) :
        k \in {x \in Members(Store, m) :
                  Prop(parseFromString(KeyMap(m), HGETALL(Store, RecordKey(m, x))),
                       remoteKey) = value}}

C17_ManyHoldsMatchingChildren ==
    Succeeded("get") =>
        \A f \in RelationFields(last.m) :
            (f.rel = "many" /\ f.model \in models) =>
                /\ f.name \in DOMAIN last.inst.rels
                /\ {c.attrs : c \in Range(last.inst.rels[f.name].items)}
                      = Matching(f.model, f.remoteKey, ForeignKey(last.inst, f))
                /\ Len(last.inst.rels[f.name].items)
                      = Cardinality(Matching(f.model, f.remoteKey,
                                             ForeignKey(last.inst, f)))

(***************************************************************************)
(* C18.  After a top-level get of an owner, each 'one' relation field      *)
(* whose foreign-key value names an existing record of a registered model  *)
(* holds the instance of that model with that key; the foreign-key value   *)
(* is the relation field's own value if set, else the localKey attribute,  *)
(* else the owner's key.                                                   *)
(***************************************************************************)
C18_OneHoldsTarget ==
    Succeeded("get") =>
        \A f \in RelationFields(last.m) :
            (f.rel = "one" /\ ~Fails(f, last.inst)) =>
                /\ f.name \in DOMAIN last.inst.rels
                /\ Len(last.inst.rels[f.name].items) = 1
                /\ last.inst.rels[f.name].items[1].model = f.model
                /\ KeyText(last.inst.rels[f.name].items[1]) = TargetText(f, last.inst)

(***************************************************************************)
(* C19.  On an acyclic relation schema the cycle guard cuts nothing: after *)
(* a top-level get every relation field whose model is registered is       *)
(* populated, on the root and on every instance reached through its        *)
(* relations, also when two paths lead from the root to one model.         *)
(***************************************************************************)
RECURSIVE Populated(_, _)
\* every relation field of the instance is resolved, down to the given depth
Populated(instance, depth) ==
    \A f \in RelationFields(instance.model) :
        f.model \in models =>
            /\ f.name \in DOMAIN instance.rels
            /\ depth > 0 =>
                  \A c \in Range(instance.rels[f.name].items) : Populated(c, depth - 1)

C19_AcyclicSchemaCutsNothing ==
    (Succeeded("get") /\ last.m \in TreeModels) =>
        Populated(last.inst, Cardinality(TreeModels))

(***************************************************************************)
(* C12.  A create or update whose data fails validation rejects with the   *)
(* validation error, status 422, in the step that follows the await of     *)
(* readiness: the call has issued no store command, the step leaves the    *)
(* store as it was, and the instance update was called on is as it was     *)
(* when the call was made.                                                 *)
(***************************************************************************)
\* the data of a call fails the schema
Invalid(t) == ~processKeys(KeyMap(StepModel), t.input, t.op = "update").ok

C12_InvalidDataRejectedBeforeCommands ==
    [][\A c \in Callers :
          (/\ calls[c].op \in {"create", "update"}
           /\ calls[c].pc = "await"
           /\ Invalid(calls[c])
           /\ ready # "rejected"
           /\ calls'[c] # calls[c]) =>
              /\ calls'[c].pc = "done"
              /\ calls'[c].status = "error"
              /\ calls'[c].error = "ObjectValidateError"
              /\ calls'[c].code = 422
              /\ calls'[c].log = <<>>
              /\ calls'[c].this = calls[c].given
              /\ sets' = sets
              /\ hashes' = hashes]_vars

\* an update with invalid data has been rejected, on a store that holds records
C12_Witness ==
    \E c \in Callers :
        /\ calls[c].op = "update"
        /\ calls[c].pc = "done"
        /\ calls[c].code = 422
        /\ calls[c].log = <<>>
        /\ calls[c].this = calls[c].given
        /\ hashes # {}

(***************************************************************************)
(* C13.  Two create calls with one key value can both pass the existence   *)
(* check, both issue their SADD and HSET commands and both return the      *)
(* instance; a create that returns has issued all its commands without     *)
(* error, EntryNameUsed is thrown only on a reply that the key is a        *)
(* member, and every field of a record hash holds the value of the call    *)
(* that wrote the field last.                                              *)
(***************************************************************************)
\* the commands of a log
Commands(log) == [i \in 1..Len(log) |-> log[i].cmd]

\* the fields the HSET commands of a log wrote
FieldsSet(log) == {log[i].arg : i \in {j \in 1..Len(log) : log[j].cmd = "HSET"}}

C13_RacingCreatesLastWriteWins ==
    /\ \A w \in writer :
          /\ calls[w[3]].op = "create"
          /\ w[2] \in DOMAIN HGETALL(Store, w[1])
          /\ HGETALL(Store, w[1])[w[2]] = parseToString(Entry(calls[w[3]].out, w[2]))
    /\ \A c \in Callers :
          /\ (calls[c].op = "create" /\ calls[c].pc = "done" /\ calls[c].status = "ok") =>
                /\ \A i \in 1..Len(calls[c].log) : calls[c].log[i].error = ""
                /\ "SADD" \in Range(Commands(calls[c].log))
                /\ FieldsSet(calls[c].log) = DOMAIN Defined(calls[c].out)
                /\ ~calls[c].flag
          /\ (calls[c].op = "create" /\ calls[c].error = "EntryNameUsed") =>
                /\ calls[c].flag
                /\ "SADD" \notin Range(Commands(calls[c].log))

\* both creates of one key have returned their instance, with different data,
\* and the record holds a field written last by each of them
C13_Witness ==
    /\ \A c \in Callers :
          /\ calls[c].op = "create"
          /\ calls[c].pc = "done"
          /\ calls[c].status = "ok"
          /\ Commands(calls[c].log)[1] = "SISMEMBER"
          /\ \E w \in writer : w[3] = c
    /\ NewKey(calls["c1"]) = NewKey(calls["c2"])
    /\ calls["c1"].input # calls["c2"].input

(***************************************************************************)
(* C14.  When a store command fails in create or update, the writes the    *)
(* call has made before it stay in the store and the failed command is the *)
(* last the call issues: a member added is a member, a member removed is   *)
(* none, a field set is a field of the hash.  The key of a failed create   *)
(* can so be a member with an empty or partial record hash.                *)
(***************************************************************************)
\* the effect of a command that the store applied is in the store
Applied(e) ==
    CASE e.cmd = "SADD" -> SISMEMBER(Store, e.key, e.arg)
      [] e.cmd = "SREM" -> ~SISMEMBER(Store, e.key, e.arg)
      [] e.cmd = "HSET" -> e.arg \in DOMAIN HGETALL(Store, e.key)
      [] OTHER          -> TRUE

C14_FailedCallKeepsItsWrites ==
    \A c \in Callers :
        (/\ calls[c].op \in {"create", "update"}
         /\ calls[c].pc = "done"
         /\ calls[c].error \in StoreErrors) =>
            /\ calls[c].log # <<>>
            /\ calls[c].log[Len(calls[c].log)].error = calls[c].error
            /\ \A i \in 1..(Len(calls[c].log) - 1) :
                  /\ calls[c].log[i].error = ""
                  /\ Applied(calls[c].log[i])

\* a create has failed after its SADD: the key is a member and the record
\* hash lacks a field of the validated data
C14_Witness ==
    \E c \in Callers :
        /\ calls[c].op = "create"
        /\ calls[c].pc = "done"
        /\ calls[c].error \in StoreErrors
        /\ "SADD" \in Range(Commands(SubSeq(calls[c].log, 1, Len(calls[c].log) - 1)))
        /\ SISMEMBER(Store, SetKey(StepModel), NewKey(calls[c]))
        /\ DOMAIN Defined(calls[c].out)
              \ DOMAIN HGETALL(Store, RecordKey(StepModel, NewKey(calls[c]))) # {}

(***************************************************************************)
(* C15.  When the store answers a command of create, update, remove, list, *)
(* exists or get with an error, the call rejects with that error, and the  *)
(* failed command is the last command of the call: it is not issued again  *)
(* and no command follows it.                                              *)
(***************************************************************************)
C15_StoreErrorPropagates ==
    \A c \in Callers :
        calls[c].op \in {"create", "update", "remove", "list", "exists", "get"} =>
            \A i \in 1..Len(calls[c].log) :
                calls[c].log[i].error # "" =>
                    /\ i = Len(calls[c].log)
                    /\ calls[c].pc = "done"
                    /\ calls[c].status = "error"
                    /\ calls[c].error = calls[c].log[i].error
                    /\ calls[c].code = 0

\* the DEL of a remove has failed after its SREM
C15_Witness ==
    \E c \in Callers :
        /\ calls[c].op = "remove"
        /\ Commands(calls[c].log) = <<"SREM", "DEL">>
        /\ calls[c].log[2].error \in StoreErrors
        /\ calls[c].error = calls[c].log[2].error

(***************************************************************************)
(* C20.  No call issues a store command before the connection promise has  *)
(* resolved: while the promise is pending, and for ever when it rejects,   *)
(* no call has issued a command and the store is as it was set up.         *)
(***************************************************************************)
C20_NoCommandBeforeReady ==
    ready \in {"pending", "rejected"} =>
        /\ \A c \in Callers : calls[c].log = <<>>
        /\ sets = {}
        /\ hashes = {}

\* a call waits on the pending promise
C20_Witness ==
    /\ ready = "pending"
    /\ \E c \in Callers : calls[c].pc = "await" /\ calls[c].op = "create"

(***************************************************************************)
(* C21.  toJSON() holds every own property of the instance but those the   *)
(* field map flags isPrivate, each with its value, so that an instance     *)
(* that differs only in its private properties has the same toJSON();      *)
(* toString() returns the value of the key field.                          *)
(***************************************************************************)
\* the properties of an object but the private ones
Public(m, obj) == [k \in {x \in DOMAIN obj : ~IsPrivate(m, x)} |-> obj[k]]

C21_ToJsonHidesPrivateFields ==
    /\ Called("toJSON") =>
          /\ DOMAIN last.json.attrs =
                {k \in DOMAIN last.this.attrs :
                    \A i \in 1..Len(KeyMap(last.m)) :
                        KeyMap(last.m)[i].name = k => ~KeyMap(last.m)[i].isPrivate}
          /\ \A k \in DOMAIN last.json.attrs : last.json.attrs[k] = last.this.attrs[k]
          /\ \A d \in Inputs[last.m] :
                Public(last.m, d) = Public(last.m, last.this.attrs) =>
                    toJSON(Instance(last.m, d)) = last.json
    /\ Called("toString") =>
          last.text = Prop(last.this.attrs, KeyOf(last.m))

\* toJSON of an instance with a private property, next to another instance
\* that differs from it in that property only
C21_Witness ==
    /\ Called("toJSON")
    /\ "secret" \in DOMAIN last.this.attrs
    /\ "secret" \notin DOMAIN last.json.attrs
    /\ \E d \in Inputs[last.m] :
          /\ d # last.this.attrs
          /\ Public(last.m, d) = Public(last.m, last.this.attrs)

(***************************************************************************)
(* C22.  For a record the schema accepts, with string, number, boolean and *)
(* object fields, parseFromString of the texts parseToString makes of its  *)
(* field values is the record again; a text under a name the schema does   *)
(* not declare comes back as it went in.                                   *)
(***************************************************************************)
C22_ParseRoundTrip ==
    Called("parseFromString") =>
        /\ DOMAIN last.inst.attrs = DOMAIN last.input
        /\ \A k \in DOMAIN last.input :
              IF \E i \in 1..Len(KeyMap(last.m)) : KeyMap(last.m)[i].name = k
              THEN last.inst.attrs[k] = last.input[k]
              ELSE last.inst.attrs[k].t = "string" /\ last.inst.attrs[k].s = last.raw[k]

\* a record with a field of each type and an undeclared one has gone through
C22_Witness ==
    /\ Called("parseFromString")
    /\ {"name", "count", "flag", "meta", "extra"} \subseteq DOMAIN last.inst.attrs
    /\ last.inst.attrs["meta"] = Obj("kv")
    /\ last.inst.attrs["flag"] = Bool(FALSE)

(***************************************************************************)
(* C23.  processKeys rejects a record exactly when a field offends (a      *)
(* required field is missing, a value has the wrong type, is below min or  *)
(* above max); the error is an ObjectValidateError with status 422 whose   *)
(* message lists every offending field once, in schema order.              *)
(***************************************************************************)
\* the length of a string and the value of a number, for min and max
SizeOf(v) == IF v.t = "string" THEN (IF v.s = "" THEN 0 ELSE 1) ELSE v.n

\* the positions in the field map of the fields of data that offend
Offending(map, data, partial) ==
    {i \in 1..Len(map) :
        LET f == map[i]
        IN  IF f.name \notin DOMAIN data THEN f.isRequired /\ ~partial
            ELSE \/ data[f.name].t # f.type
                 \/ /\ data[f.name].t \in {"string", "number"}
                    /\ \/ f.hasMin /\ SizeOf(data[f.name]) < f.min
                       \/ f.hasMax /\ SizeOf(data[f.name]) > f.max}

C23_EveryOffendingFieldListed ==
    Called("processKeys") =>
        LET map == KeyMap(last.m)
            bad == Offending(map, last.input, last.partial)
        IN  /\ last.status = "error" <=> bad # {}
            /\ last.status = "error" =>
                  /\ last.error = "ObjectValidateError"
                  /\ last.code = 422
                  /\ Len(last.errors) = Cardinality(bad)
                  /\ Range(last.errors) = {map[i].name : i \in bad}
                  /\ \A i, j \in 1..Len(last.errors) :
                        i < j =>
                            \E x, y \in bad :
                                /\ x < y
                                /\ map[x].name = last.errors[i]
                                /\ map[y].name = last.errors[j]

\* a record rejected for a missing required field and a number above max
C23_Witness ==
    /\ Called("processKeys")
    /\ last.errors = <<"name", "count">>
    /\ "name" \notin DOMAIN last.input
    /\ Prop(last.input, "count") = Num(MaxAge + 1)

C25_RegistryOnlyGrows ==
    [][ /\ models \subseteq models'
        /\ (last.op = "none" /\ last'.op = "register") => models' = models \cup {last'.m}
        /\ last'.op # "register" => models' = models ]_vars

\* every model has been registered, the last of them after the others
C25_Witness == last.op = "register" /\ models = RelModels

(***************************************************************************)
(* C26.  No member set holds the empty key text and no record hash is      *)
(* named after it: every persisted record has a key of at least one        *)
(* character.                                                              *)
(***************************************************************************)
C26_PersistedKeysNonEmpty ==
    \A m \in CrudModels :
        /\ "" \notin Members(Store, m)
        /\ \A h \in hashes : h[1] # Prefix \o m \o "_"

(***************************************************************************)
(* C27.  Every command a call of model M issues names the member set,      *)
(* the prefix followed by M, or a record hash, the prefix followed by M,   *)
(* an underscore and a key value of the call: the one it was given, the    *)
(* one in its data, or a member it listed.  A RENAME names two hashes.     *)
(***************************************************************************)
\* the key values a call works on
KeyValues(t) ==
    (IF t.op \in {"update", "remove"} THEN {KeyText(t.given)} ELSE {})
    \cup (IF t.op \in {"create", "update"} /\ KeyOf(StepModel) \in DOMAIN t.input
          THEN {ToStr(t.input[KeyOf(StepModel)])} ELSE {})
    \cup (IF t.op \in {"get", "exists"}
          THEN {ToStr(ResolveIndex(StepModel, t.index))} ELSE {})
    \cup (IF t.op = "listDetail" THEN KeyTexts(StepModel) ELSE {})

SetCommands == {"SISMEMBER", "SADD", "SREM", "SMEMBERS"}

C27_CommandsNameSetOrRecord ==
    \A c \in Callers : \A i \in 1..Len(calls[c].log) :
        LET cmd    == calls[c].log[i]
            records == {Prefix \o StepModel \o "_" \o k : k \in KeyValues(calls[c])}
        IN  /\ cmd.cmd \in SetCommands => cmd.key = Prefix \o StepModel
            /\ cmd.cmd \notin SetCommands => cmd.key \in records
            /\ cmd.cmd = "RENAME" => cmd.arg \in records

\* an update has moved a record to a new key and written to it
C27_Witness ==
    \E c \in Callers :
        /\ calls[c].op = "update"
        /\ calls[c].pc = "done"
        /\ {"SREM", "SADD", "RENAME", "HSET"} \subseteq Range(Commands(calls[c].log))

(***************************************************************************)
(* C28.  A create issues its commands one at a time in the order: the      *)
(* membership test of the key, the add of the key to the member set, one   *)
(* hash-field write for each defined field of the validated data in the    *)
(* order of the data, and the hash read of the reload.  A create that      *)
(* ends early has issued a beginning of that sequence, and no step of a    *)
(* call issues more than one command.                                      *)
(***************************************************************************)
\* the names of the defined fields of a validated record, in its order
DefinedKeys(out) ==
    LET kept == SelectSeq(out, LAMBDA e : e.v # Undefined)
    IN  [i \in 1..Len(kept) |-> kept[i].k]

\* the commands of a complete create of the validated record out, each with
\* the field it writes
CreateOrder(out) ==
    <<[cmd |-> "SISMEMBER", field |-> ""], [cmd |-> "SADD", field |-> ""]>>
    \o [i \in 1..Len(DefinedKeys(out)) |-> [cmd |-> "HSET", field |-> DefinedKeys(out)[i]]]
    \o <<[cmd |-> "HGETALL", field |-> ""]>>

\* the commands of a log, each with the field it writes
Issued(log) ==
    [i \in 1..Len(log) |->
        [cmd |-> log[i].cmd, field |-> IF log[i].cmd = "HSET" THEN log[i].arg ELSE ""]]

IsPrefix(s, t) == Len(s) <= Len(t) /\ s = SubSeq(t, 1, Len(s))

\* a step leaves the log of a call alone, adds one command to it, or ends
\* the call
OneAtATime(c) ==
    \/ calls'[c].pc = "idle"
    \/ calls'[c].log = calls[c].log
    \/ /\ Len(calls'[c].log) = Len(calls[c].log) + 1
       /\ IsPrefix(calls[c].log, calls'[c].log)

C28_CreateCommandOrder ==
    [][ \A c \in Callers :
           /\ OneAtATime(c)
           /\ calls'[c].op = "create" =>
                 /\ IsPrefix(Issued(calls'[c].log), CreateOrder(calls'[c].out))
                 /\ (calls'[c].pc = "done" /\ calls'[c].status = "ok") =>
                       Issued(calls'[c].log) = CreateOrder(calls'[c].out) ]_vars

(***************************************************************************)
(* C29.  An update whose data names another key than the instance's        *)
(* issues the membership test of the new key, the removal of the old key   *)
(* from the member set, the add of the new key, the rename of the record   *)
(* hash, and after these nothing but hash-field writes.  A remove issues   *)
(* the removal from the member set and then the deletion of the hash.      *)
(***************************************************************************)
MoveOrder == <<"SISMEMBER", "SREM", "SADD", "RENAME">>

\* the data of an update names a key that is not the instance's
ChangesKey(t) ==
    /\ t.op = "update"
    /\ KeyOf(StepModel) \in DOMAIN t.input
    /\ t.input[KeyOf(StepModel)] # Prop(t.given.attrs, KeyOf(StepModel))

C29_UpdateAndRemoveCommandOrder ==
    \A c \in Callers :
        LET t   == calls[c]
            log == Commands(t.log)
        IN  /\ ChangesKey(t) =>
                  /\ \A i \in 1..Len(log) :
                        log[i] = IF i <= Len(MoveOrder) THEN MoveOrder[i] ELSE "HSET"
                  /\ (t.pc = "done" /\ t.status = "ok") => Len(log) > Len(MoveOrder)
            /\ t.op = "remove" =>
                  /\ IsPrefix(log, <<"SREM", "DEL">>)
                  /\ (t.pc = "done" /\ t.status = "ok") => log = <<"SREM", "DEL">>

(***************************************************************************)
(* C30.  The history of the traversal of a top-level get begins with the   *)
(* root model's name and holds no name twice.  Every relation that was     *)
(* followed has the name of its target model in the history after the      *)
(* root's, and no two followed relations have the same target model: the   *)
(* traversal follows at most one relation per model name.                  *)
(***************************************************************************)
RECURSIVE Followed(_, _)
\* the relations populated in a loaded instance and in the instances below
\* it: each as its place in the result and the model it leads to
Followed(instance, place) ==
    UNION {{<<place \o <<k>>, SpecOf(KeyMap(instance.model), k).model>>}
           \cup UNION {Followed(instance.rels[k].items[i], place \o <<k, ToString(i)>>) :
                          i \in 1..Len(instance.rels[k].items)} :
           k \in DOMAIN instance.rels}

C30_HistoryHoldsEachModelOnce ==
    Called("get") =>
        \A ord \in RelOrders :
            LET r == Traversal(Store, models, last.m, ToStr(AskedKey), ord)
                H == r.h.history
                F == IF r.status = "ok" THEN Followed(r.inst, <<>>) ELSE {}
            IN  /\ Len(H) >= 1
                /\ H[1] = last.m
                /\ \A i, j \in 1..Len(H) : H[i] = H[j] => i = j
                /\ \A x \in F : \E i \in 2..Len(H) : H[i] = x[2]
                /\ \A x, y \in F : x[2] = y[2] => x = y
                /\ Cardinality(F) <= Len(H) - 1

\* a get of a user has followed the relation to its posts and, below the first
\* post, the relation to its comments, and has cut the way back to User
C30_Witness ==
    /\ Succeeded("get")
    /\ last.m = "User"
    /\ \E ord \in RelOrders :
          LET r == Traversal(Store, models, last.m, ToStr(AskedKey), ord)
          IN  /\ r.status = "ok"
              /\ r.h.history = <<"User", "Post", "Comment">>
              /\ Cardinality(Followed(r.inst, <<>>)) = 2
              /\ r.inst = last.inst

(***************************************************************************)
(* C31.  Every field of every record hash is a field the schema of the     *)
(* model declares: what the caller's data holds beyond the schema is not   *)
(* written by create or by update.                                         *)
(***************************************************************************)
C31_StoredFieldsDeclared ==
    \A h \in hashes : \E m \in CrudModels :
        /\ \E k \in KeyTexts(m) : h[1] = Prefix \o m \o "_" \o k
        /\ \E i \in 1..Len(KeyMap(m)) : KeyMap(m)[i].name = h[2]

\* an update whose data holds an undeclared field has succeeded and has
\* written the declared ones
C31_Witness ==
    /\ Succeeded("update")
    /\ \E k \in DOMAIN last.input : ~Declares(KeyMap(last.m), k)
    /\ \E k \in DOMAIN last.input : <<RecordKey(last.m, KeyText(last.inst)), k,
                                      ToStr(last.input[k])>> \in hashes

(***************************************************************************)
(* C32.  Between calls the member set and the record hashes agree: a key   *)
(* is a member exactly when its record hash has a field, so exists(k)      *)
(* is true exactly when get(k) succeeds.                                   *)
(***************************************************************************)
C32_MembersAndHashesAgree ==
    \A m \in CrudModels : \A k \in KeyTexts(m) :
        /\ (k \in Members(Store, m)) <=> (\E h \in hashes : h[1] = Prefix \o m \o "_" \o k)
        /\ exists(Store, m, RawIndex(Str(k))) <=> (Reload(Store, m, k).status = "ok")

(***************************************************************************)
(* C33.  After a successful update the record stored under the instance's  *)
(* key agrees with the instance: a get of that key succeeds and holds, for *)
(* every field of the schema, the value the instance holds.                *)
(***************************************************************************)
C33_UpdatedInstanceEqualsRecord ==
    Succeeded("update") =>
        LET stored == Reload(Store, last.m, KeyText(last.inst))
        IN  /\ stored.status = "ok"
            /\ \A i \in 1..Len(KeyMap(last.m)) :
                  Prop(stored.inst.attrs, KeyMap(last.m)[i].name)
                     = Prop(last.inst.attrs, KeyMap(last.m)[i].name)

(***************************************************************************)
(* C34.  listDetail with an options object of no pairs returns what        *)
(* listDetail without options returns: the instance of every member.       *)
(***************************************************************************)
C34_EmptyOptionsListAll ==
    (Called("listDetail") /\ last.options.given /\ last.options.pairs = <<>>) =>
        /\ last.status = "ok"
        /\ last.list = Loaded
        /\ \A ord \in CrudOrders :
              Listed(Store, last.m, ord) = last.keys =>
                  last.list = listDetail(Store, models, last.m, NoOptions, ord).list

(***************************************************************************)
(* C35.  The children a 'many' relation of a loaded instance holds are     *)
(* resolved alike: a relation field of the child model whose resolution    *)
(* can succeed is set on every such child or on none of them.              *)
(***************************************************************************)
C35_ChildrenResolvedAlike ==
    Succeeded("get") =>
        \A f \in RelationFields(last.m) :
            (f.rel = "many" /\ f.name \in DOMAIN last.inst.rels) =>
                \A g \in RelationFields(f.model) :
                    LET able == {c \in Range(last.inst.rels[f.name].items) : ~Fails(g, c)}
                    IN  \/ \A c \in able : g.name \in DOMAIN c.rels
                        \/ \A c \in able : g.name \notin DOMAIN c.rels

(***************************************************************************)
(* C36.  get, exists, list and listDetail (findall is listDetail) issue    *)
(* only hash reads, membership tests and member listings, and no step of   *)
(* theirs changes a member set or a record hash.                           *)
(***************************************************************************)
ReadCalls == {"get", "exists", "list", "listDetail"}

ReadCommands == {"HGETALL", "SISMEMBER", "SMEMBERS"}

C36_ReadsLeaveStoreAlone ==
    [][ \A c \in Callers :
           (calls[c].op \in ReadCalls /\ calls'[c].op = calls[c].op) =>
               /\ sets' = sets
               /\ hashes' = hashes
               /\ \A i \in 1..Len(calls'[c].log) :
                     calls'[c].log[i].cmd \in ReadCommands ]_vars

\* a listDetail has listed the members of a store that holds a record and has
\* read it
C36_Witness ==
    \E c \in Callers :
        /\ calls[c].op = "listDetail"
        /\ calls[c].pc = "done"
        /\ calls[c].status = "ok"
        /\ Commands(calls[c].log) = <<"SMEMBERS", "HGETALL">>
        /\ hashes # {}

(***************************************************************************)
(* C37.  Distinct records have distinct hash names, no record hash of one  *)
(* model has the name of the member set of another, and a create or a      *)
(* remove on one model leaves what get returns for the records of every    *)
(* other model as it was.                                                  *)
(***************************************************************************)
C37_RecordNamesKeptApart ==
    /\ \A m1, m2 \in NameModels :
          \A k1 \in Members(Store, m1), k2 \in Members(Store, m2) :
              <<m1, k1>> # <<m2, k2>> =>
                  Prefix \o m1 \o "_" \o k1 # Prefix \o m2 \o "_" \o k2
    /\ \A m1, m2 \in NameModels :
          \A k1 \in Members(Store, m1) :
              m1 # m2 => Prefix \o m1 \o "_" \o k1 # Prefix \o m2
    /\ (Succeeded("create") \/ Succeeded("remove")) =>
          \A m \in NameModels \ {last.m} : \A k \in Members(last.pre, m) :
              get(Store, models, m, k, NoHelper, CHOOSE ord \in NameOrders : TRUE)
                 = get(last.pre, models, m, k, NoHelper, CHOOSE ord \in NameOrders : TRUE)


\* no command of any call was answered with an error of the store
NoStoreError ==
    \A c \in Callers : \A i \in 1 .. Len(calls[c].log) : calls[c].log[i].error = ""

(***************************************************************************)
(* C38: a listDetail that runs together with a create, a remove or a       *)
(* key-changing update on the same model never rejects with EntryNotFound: *)
(* each key it read from the member set is returned as an instance or left *)
(* out of the result.                                                      *)
(***************************************************************************)
C38_ListDetailNeverEntryNotFound ==
    \A c \in Callers :
        (/\ calls[c].op = "listDetail"
         /\ calls[c].pc = "done"
         /\ NoStoreError)
        => /\ calls[c].status = "ok"
           /\ calls[c].error # "EntryNotFound"


\* every call of a caller has completed, and each was a create, an update or
\* a remove
WritesDone ==
    \A c \in Callers : /\ calls[c].pc = "done"
                       /\ calls[c].op \in {"create", "update", "remove"}

\* the keys call c returned success for: the key of a create, the new key of
\* a key-changing update
SuccessKeys(c) ==
    IF calls[c].status = "ok" /\ calls[c].op = "create"
    THEN {NewKey(calls[c])}
    ELSE IF /\ calls[c].status = "ok"
            /\ calls[c].op = "update"
            /\ KeyText(calls[c].inst) # KeyText(calls[c].given)
    THEN {KeyText(calls[c].inst)}
    ELSE {}

\* a remove of key k has completed
Removed(k) ==
    \E c \in Callers : /\ calls[c].op = "remove"
                       /\ calls[c].status = "ok"
                       /\ KeyText(calls[c].given) = k

(***************************************************************************)
(* C39: under any interleaving of concurrent create, update and remove      *)
(* calls on one model with no store failure, once every call has completed *)
(* the store is consistent: a key is in the member set exactly when its    *)
(* record hash is non-empty, and every call that returned success for a    *)
(* key left a record that get resolves, unless a remove deleted it.        *)
(***************************************************************************)
C39_ConcurrentWritesLeaveStoreConsistent ==
    (WritesDone /\ NoStoreError) =>
        /\ \A k \in KeyTexts(StepModel) :
              (k \in Members(Store, StepModel))
                  <=> (\E h \in hashes : h[1] = RecordKey(StepModel, k))
        /\ \A c \in Callers : \A k \in SuccessKeys(c) :
              Removed(k) \/ Reload(Store, StepModel, k).status = "ok"

============================================================================
